---- MODULE Spec2Model ----
(***************************************************************************)
(* A model of the media acquisition-and-streaming cache of the family      *)
(* music player: the IPC handler get-youtube-audio-url with its per-id     *)
(* download lock (electron/main.ts), the HTTP routes                       *)
(* /api/youtube/audio/:videoId and /api/stream/:trackId                    *)
(* (electron/server.ts), the eviction sweep cleanupCache and the           *)
(* byte-range file serving code, the middleware of the HTTP servers (Host   *)
(* validation, rate limiting, CORS, authentication) and the relay of the   *)
(* standalone servers.                                                     *)
(*                                                                         *)
(* An asynchronous handler is modelled turn by turn: one action is the     *)
(* code that runs between two awaits.  A continuation that waits only for  *)
(* a promise to resolve is a microtask; completions of file-system calls,  *)
(* child-process events and timers are macrotasks and run only when no     *)
(* microtask is pending.  The host may dispatch a new invocation of a      *)
(* handler between any two turns, and the wall clock may advance between   *)
(* any two turns.                                                          *)
(*                                                                         *)
(* The specifications share the variables.  Spec is the acquisition of     *)
(* audio by the IPC handler and the HTTP routes; SpecEvict is a run of     *)
(* cleanupCache over a directory of files, with failing stat and unlink    *)
(* calls, cache hits and a download beside it; SpecRange is the answer of  *)
(* each of the three pieces of file-serving code to a Range request;       *)
(* SpecFilter is the answer of the Host check and of the CORS check of     *)
(* each server to a header value; SpecGate is requests of every kind       *)
(* through the middleware of a server that has served requests; SpecRate   *)
(* is the requests of one client counted by the rate limiter from the      *)
(* construction of the server; SpecRelay is one audio request through a    *)
(* standalone server and its upstream, SpecRelayLive the same with the     *)
(* timers of the program firing; SpecLock is two ids under the download    *)
(* lock with downloaders that exit, SpecDownload the downloads of one      *)
(* handler with timeouts and orphaned downloaders, SpecSweep a run of      *)
(* cleanupCache beside files that come and go, each with a Live variant    *)
(* under the fairness the scheduling of the program gives; SpecLife is the *)
(* main process from startup to exit, with its sweeps, its timer and the   *)
(* requests to shut down; SpecStream is one file streamed to a client by   *)
(* streamFile with its inactivity timer, SpecStreamLive the same with the  *)
(* timer firing; SpecPrune is the rate limiter of a server whose store has *)
(* grown past the size at which it is pruned; SpecResolve is concurrent    *)
(* calls of the resolver that goes round the upstream instances.           *)
(* Each leaves the variables of the others at their initial values.        *)
(***************************************************************************)
EXTENDS Integers, Sequences, FiniteSets, TLC

\* ------------------------------------------------------------ bounds

NumCalls == 3
NumReqs == 2
MaxInvocations == 3
MaxOrphans == 1
MaxTicks == 4
MaxDays == 1

\* The windows of the rate limiter that pass; the requests sent to a server
\* whose rate limiter starts empty, and to one that has served requests.
MaxWindows == 2
MaxRequests == 102
GateRequests == 2

\* The requests a relay issues to the upstream before the model stops the
\* redirects, and the chunks the upstream sends.
MaxUpstream == 8
MaxChunks == 3

\* The ticks of the cleanup timer and the requests to shut down.
MaxSweepTicks == 2
MaxShutdownRequests == 3

\* One step of the model's clock, in milliseconds.
TickMs == 60 * 1000

\* ------------------------------------------------- program constants

DOWNLOAD_LOCK_TIMEOUT_MS == 180000
LOCK_POLL_MS == 5000

\* The rate limiter's window and the requests it lets through in one window
\* (shared/constants.ts); the size above which the production server prunes
\* its map.
RATE_LIMIT_WINDOW_MS == 60000
RATE_LIMIT_MAX_REQUESTS == 100
STORE_PRUNE_SIZE == 10000

\* --------------------------------------------------------- video ids

Lower == {"a","b","c","d","e","f","g","h","i","j","k","l","m",
          "n","o","p","q","r","s","t","u","v","w","x","y","z"}
Upper == {"A","B","C","D","E","F","G","H","I","J","K","L","M",
          "N","O","P","Q","R","S","T","U","V","W","X","Y","Z"}
Digit == {"0","1","2","3","4","5","6","7","8","9"}

\* The character class [a-zA-Z0-9_-] of VIDEO_ID_REGEX.
IdChars == Lower \cup Upper \cup Digit \cup {"_", "-"}

\* VIDEO_ID_REGEX = /^[a-zA-Z0-9_-]{11}$/ tried on the characters of s from
\* position i on, with n repetitions of the class still to match.
RECURSIVE RegexTest(_, _, _)
RegexTest(s, i, n) ==
  IF n = 0 THEN i = Len(s) + 1
  ELSE /\ i <= Len(s)
       /\ s[i] \in IdChars
       /\ RegexTest(s, i + 1, n - 1)

\* A string is the sequence of its characters; << >> stands for a falsy
\* argument (null, undefined, the empty string).
NoId == << >>

\* isValidVideoId with the regex test left out.
isValidVideoIdNoRegex(videoId) == videoId # NoId

isValidVideoId(videoId) ==
  IF videoId = NoId THEN FALSE ELSE RegexTest(videoId, 1, 11)

GoodId == <<"d","Q","w","4","w","9","W","g","X","c","Q">>
BadId == <<"b","a","d"," ","i","d","!">>

InputIds == {GoodId, BadId}

\* ------------------------------------------------------------- state

Exts == <<"m4a", "webm">>
ExtSet == {"m4a", "webm"}

Calls == 1..NumCalls
Reqs == 1..NumReqs

VARIABLES
  cache,            \* ytCacheDir: id -> extension -> "none" | "empty" (0 bytes) | "data"
  downloadLocks,    \* id -> the call whose lock object is in the map, 0 when none
  lockResolved,     \* the calls whose lock promise has been resolved
  activeDownloads,  \* id -> the call whose download promise is in the map, 0 when none
  ipc,              \* the invocations of get-youtube-audio-url
  dl,               \* the download promise created by each invocation
  orphans,          \* id -> extension -> downloader processes left running by a timeout
  http,             \* the requests to /api/youtube/audio/:videoId and /api/stream/:trackId
  enow,             \* Date.now() as cleanupCache sees it (ms)
  dir,              \* ytCacheDir as cleanupCache sees it: name -> file (mtime, size)
  sw,               \* the run of cleanupCache
  rq,               \* a request for a file: the size of the file, the Range header
  rs,               \* the response to it
  fq,               \* a Host header and an Origin header put to the checks of each server
  fr,               \* what the check of one server answered
  srv,              \* a server as constructed: which code, config.authToken before and after
  rateLimitStore,   \* rateLimitMap / rateLimitStore: client IP -> { count, resetTime }
  unpruned,         \* the store of the same limiter had nothing ever been pruned, and its last answer
  gnow,             \* Date.now() as the rate limiter sees it (ms)
  rr,               \* the last request through the middleware and what became of it
  left,             \* the requests the model still sends
  rl,               \* a request for /api/youtube/audio/:videoId and its relay
  life,             \* the main process: its sweeps, its timer, its shutdown
  st,               \* a read stream opened by streamFile and the timer that watches it
  pv                \* the calls of getPipedAudioUrl of a standalone server and currentPipedIndex

ipcVars == <<downloadLocks, lockResolved, activeDownloads, ipc, dl>>
acqVars == <<cache, ipcVars, orphans, http>>

evictVars == <<enow, dir, sw>>

rangeVars == <<rq, rs>>

filterVars == <<fq, fr>>

gateVars == <<srv, rateLimitStore, unpruned, gnow, rr, left>>

relayVars == <<rl>>

lifeVars == <<life>>

streamVars == <<st>>

resolveVars == <<pv>>

netVars == <<filterVars, gateVars, relayVars, lifeVars, streamVars, resolveVars>>

vars == <<acqVars, evictVars, rangeVars, netVars>>

\* --------------------------------------------- files of the cache

\* A size test that no file passes.
NoFileNonEmpty(f) == FALSE

\* stat.size > 0
NonEmpty(f) == f = "data"

\* fs.stat / fs.access resolve (the file exists)
Exists(f) == f # "none"

\* ------------------------------------ acquireDownloadLock (main.ts)

\* waited is Date.now() - startTime of a caller in the wait loop, polled is the
\* time since its Promise.race began.  joined (the invocations for the same id
\* in progress when this one was made) and forced (it removed a stale lock)
\* record the history of the invocation.
NoCall == [pc |-> "idle", id |-> NoId, waited |-> 0, polled |-> 0, waitOn |-> 0,
           dl |-> 0, result |-> "none", joined |-> {}, forced |-> FALSE]

InProgress(videoId) ==
  {b \in Calls : ipc[b].pc \notin {"idle", "done"} /\ ipc[b].id = videoId}
NoDownload == [dpc |-> "none", ext |-> "m4a", k |-> 0, touched |-> FALSE]

\* One lock for all ids.
AnyLockHeld(videoId) == \E v \in DOMAIN downloadLocks : downloadLocks[v] # 0

\* downloadLocks.has(videoId)
LockHeld(videoId) == downloadLocks[videoId] # 0

\* A wait loop without the timeout check.
LockWaitNeverExpires(c) == FALSE

\* Date.now() - startTime > DOWNLOAD_LOCK_TIMEOUT_MS
LockWaitExpired(c) == ipc[c].waited > DOWNLOAD_LOCK_TIMEOUT_MS

\* A continuation is queued as a microtask: the handler resumes after
\* `await acquireDownloadLock(...)`, or the lock promise awaited in the
\* Promise.race of the wait loop has been resolved.
MicrotaskPending ==
  \E c \in Calls :
    \/ ipc[c].pc = "gotLock"
    \/ ipc[c].pc = "waitLock" /\ ipc[c].waitOn \in lockResolved

\* A release function that leaves the lock in the map.
ReleaseLocksKept(videoId) == downloadLocks

\* The release function returned by acquireDownloadLock: it removes and
\* resolves whatever lock the map holds for the id.
ReleaseLocks(videoId) ==
  IF downloadLocks[videoId] # 0
  THEN [downloadLocks EXCEPT ![videoId] = 0]
  ELSE downloadLocks
ReleaseResolved(videoId) ==
  IF downloadLocks[videoId] # 0
  THEN lockResolved \cup {downloadLocks[videoId]}
  ELSE lockResolved

\* -------------------------- get-youtube-audio-url (main.ts), by turn

\* Invocations are interchangeable: they are used in the order of their index.
NextCall(c) == \A b \in Calls : b < c => ipc[b].pc # "idle"

\* The invocations and requests made so far.
Started ==
  Cardinality({c \in Calls : ipc[c].pc # "idle"})
    + Cardinality({r \in Reqs : http[r].pc # "idle"})

\* The handler is invoked: validation, then acquireDownloadLock up to its
\* first await (the wait loop) or to its return.
IpcCall(c, videoId) ==
  /\ ipc[c].pc = "idle"
  /\ NextCall(c)
  /\ Started < MaxInvocations
  /\ IF ~isValidVideoId(videoId)
     THEN /\ ipc' = [ipc EXCEPT ![c] = [@ EXCEPT !.pc = "done", !.id = videoId,
                                                 !.result = "null"]]
          /\ UNCHANGED downloadLocks
     ELSE IF LockHeld(videoId)
     THEN /\ ipc' = [ipc EXCEPT ![c] = [@ EXCEPT !.pc = "waitLock", !.id = videoId,
                                                 !.joined = InProgress(videoId),
                                                 !.waitOn = downloadLocks[videoId]]]
          /\ UNCHANGED downloadLocks
     ELSE /\ ipc' = [ipc EXCEPT ![c] = [@ EXCEPT !.pc = "gotLock", !.id = videoId,
                                                 !.joined = InProgress(videoId)]]
          /\ downloadLocks' = [downloadLocks EXCEPT ![videoId] = c]
  /\ UNCHANGED <<cache, lockResolved, activeDownloads, dl, orphans, http, evictVars, rangeVars, netVars>>

\* One more iteration of the wait loop: the awaited lock promise was resolved,
\* or the 5 s timer of the Promise.race fired.
IpcWake(c) ==
  LET videoId == ipc[c].id IN
  /\ ipc[c].pc = "waitLock"
  /\ \/ ipc[c].waitOn \in lockResolved
     \/ ~MicrotaskPending /\ ipc[c].polled >= LOCK_POLL_MS
  /\ IF LockHeld(videoId) /\ ~LockWaitExpired(c)
     THEN /\ ipc' = [ipc EXCEPT ![c] = [@ EXCEPT !.waitOn = downloadLocks[videoId],
                                                 !.polled = 0]]
          /\ UNCHANGED <<downloadLocks, lockResolved>>
     ELSE /\ ipc' = [ipc EXCEPT ![c] = [@ EXCEPT !.pc = "gotLock", !.waited = 0,
                                                 !.polled = 0,
                                                 !.forced = LockHeld(videoId)]]
          /\ lockResolved' = ReleaseResolved(videoId)
          /\ downloadLocks' = [downloadLocks EXCEPT ![videoId] = c]
  /\ UNCHANGED <<cache, activeDownloads, dl, orphans, http, evictVars, rangeVars, netVars>>

\* activeDownloads.get(videoId)
ExistingDownloadNone(videoId) == 0
ExistingDownload(videoId) == activeDownloads[videoId]

\* The handler resumes with the release function: it returns the download
\* promise found in activeDownloads, or creates one (the async function runs
\* to its first await, fs.stat of the m4a file), stores it and releases.
IpcContinue(c) ==
  LET videoId == ipc[c].id
      existing == ExistingDownload(videoId) IN
  /\ ipc[c].pc = "gotLock"
  /\ lockResolved' = ReleaseResolved(videoId)
  /\ downloadLocks' = ReleaseLocks(videoId)
  /\ IF existing # 0
     THEN /\ ipc' = [ipc EXCEPT ![c] = [@ EXCEPT !.pc = "await", !.dl = existing]]
          /\ UNCHANGED <<activeDownloads, dl>>
     ELSE /\ ipc' = [ipc EXCEPT ![c] = [@ EXCEPT !.pc = "await", !.dl = c]]
          /\ dl' = [dl EXCEPT ![c] = [NoDownload EXCEPT !.dpc = "stat"]]
          /\ activeDownloads' = [activeDownloads EXCEPT ![videoId] = c]
  /\ UNCHANGED <<cache, orphans, http, evictVars, rangeVars, netVars>>

\* The wall clock advances.  It is read only by the wait loop of
\* acquireDownloadLock, as a difference to the time the wait began.
Tick ==
  /\ \E c \in Calls : ipc[c].pc = "waitLock"
  /\ \A c \in Calls : ipc[c].pc = "waitLock" => ipc[c].waited < MaxTicks * TickMs
  /\ ipc' = [c \in Calls |->
               IF ipc[c].pc = "waitLock"
               THEN [ipc[c] EXCEPT !.waited = @ + TickMs, !.polled = @ + TickMs]
               ELSE ipc[c]]
  /\ UNCHANGED <<cache, downloadLocks, lockResolved, activeDownloads, dl, orphans, http, evictVars, rangeVars, netVars>>

\* -------------------- the download promise of the handler, by turn

formats == <<"140", "bestaudio[ext=m4a]", "bestaudio">>
browsers == <<"firefox", "chrome", "edge", "brave", "opera", "chromium">>

\* The candidates in the order the two loops try them: each format without
\* cookies, then each format for each browser.
\* The attempts without cookies only.
NumCandidatesNoCookies == Len(formats)

NumCandidates == Len(formats) * (1 + Len(browsers))
Candidate(k) ==
  IF k <= Len(formats)
  THEN [format |-> formats[k], browser |-> "none"]
  ELSE [format |-> formats[((k - Len(formats) - 1) % Len(formats)) + 1],
        browser |-> browsers[((k - Len(formats) - 1) \div Len(formats)) + 1]]

\* getOutputFile
getOutputFile(format) == IF format = "bestaudio" THEN "webm" ELSE "m4a"

Output(c) == getOutputFile(Candidate(dl[c].k).format)

\* The downloader processes running on a file that nobody awaits any more.
RECURSIVE OrphansOf(_)
OrphansOf(ids) ==
  IF ids = {} THEN 0
  ELSE LET v == CHOOSE x \in ids : TRUE
       IN orphans[v]["m4a"] + orphans[v]["webm"] + OrphansOf(ids \ {v})
OrphanCount == OrphansOf(DOMAIN orphans)

\* The async function returns (its finally block deletes the map entry) and
\* every invocation that returned this promise receives the result.
SettleIpc(c, res) ==
  [a \in Calls |->
     IF ipc[a].pc = "await" /\ ipc[a].dl = c
     THEN [ipc[a] EXCEPT !.pc = "done", !.result = res]
     ELSE ipc[a]]

\* A download whose finally block does not delete the map entry.
SettleKeepsEntry(c, res) ==
  /\ ipc' = SettleIpc(c, res)
  /\ dl' = [dl EXCEPT ![c] = [@ EXCEPT !.dpc = "done"]]
  /\ UNCHANGED activeDownloads

Settle(c, res) ==
  /\ ipc' = SettleIpc(c, res)
  /\ dl' = [dl EXCEPT ![c] = [@ EXCEPT !.dpc = "done"]]
  /\ activeDownloads' = [activeDownloads EXCEPT ![ipc[c].id] = 0]

\* fs.stat(cached) of the cache lookup completes.
DlStat(c) ==
  LET videoId == ipc[c].id
      f == cache[videoId][dl[c].ext] IN
  /\ dl[c].dpc = "stat"
  /\ ~MicrotaskPending
  /\ dl' = [dl EXCEPT ![c] =
              IF NonEmpty(f) THEN [@ EXCEPT !.dpc = "touch"]
              ELSE IF @.ext = "m4a" THEN [@ EXCEPT !.ext = "webm"]
              ELSE [@ EXCEPT !.dpc = "statDeno"]]
  /\ UNCHANGED <<cache, downloadLocks, lockResolved, activeDownloads, ipc, orphans, http, evictVars, rangeVars, netVars>>

\* fs.utimes(cached) completes: it has set the mtime of the file, or failed
\* because the file is gone (the error is ignored); the cached file is returned.
DlTouch(c) ==
  /\ dl[c].dpc = "touch"
  /\ ~MicrotaskPending
  /\ ipc' = SettleIpc(c, dl[c].ext)
  /\ dl' = [dl EXCEPT ![c] = [@ EXCEPT !.dpc = "done",
                                       !.touched = Exists(cache[ipc[c].id][dl[c].ext])]]
  /\ activeDownloads' = [activeDownloads EXCEPT ![ipc[c].id] = 0]
  /\ UNCHANGED <<cache, downloadLocks, lockResolved, orphans, http, evictVars, rangeVars, netVars>>

\* fs.stat(denoPath) completes; the first candidate's downloader is started.
DlStatDeno(c) ==
  /\ dl[c].dpc = "statDeno"
  /\ ~MicrotaskPending
  /\ dl' = [dl EXCEPT ![c] = [@ EXCEPT !.dpc = "race", !.k = 1]]
  /\ UNCHANGED <<cache, downloadLocks, lockResolved, activeDownloads, ipc, orphans, http, evictVars, rangeVars, netVars>>

\* The awaited downloader writes to its output file.
DlProcWrite(c, content) ==
  /\ dl[c].dpc = "race"
  /\ cache' = [cache EXCEPT ![ipc[c].id][Output(c)] = content]
  /\ UNCHANGED <<downloadLocks, lockResolved, activeDownloads, ipc, dl, orphans, http, evictVars, rangeVars, netVars>>

\* The awaited downloader exits: with code 0 its output file is written or
\* empty, and fs.stat(output) is issued; otherwise the catch block issues
\* fs.unlink(output).
DlProcExit(c, ok, content) ==
  /\ dl[c].dpc = "race"
  /\ ~MicrotaskPending
  /\ IF ok
     THEN /\ cache' = [cache EXCEPT ![ipc[c].id][Output(c)] = content]
          /\ dl' = [dl EXCEPT ![c] = [@ EXCEPT !.dpc = "verify"]]
     ELSE /\ UNCHANGED cache
          /\ dl' = [dl EXCEPT ![c] = [@ EXCEPT !.dpc = "unlink"]]
  /\ UNCHANGED <<downloadLocks, lockResolved, activeDownloads, ipc, orphans, http, evictVars, rangeVars, netVars>>

\* The timer of the race fires first ('yt-dlp timeout'): the catch block issues
\* fs.unlink(output); the downloader process is not stopped.
DlTimeout(c) ==
  /\ dl[c].dpc = "race"
  /\ ~MicrotaskPending
  /\ OrphanCount < MaxOrphans
  /\ orphans' = [orphans EXCEPT ![ipc[c].id][Output(c)] = @ + 1]
  /\ dl' = [dl EXCEPT ![c] = [@ EXCEPT !.dpc = "unlink"]]
  /\ UNCHANGED <<cache, downloadLocks, lockResolved, activeDownloads, ipc, http, evictVars, rangeVars, netVars>>

\* fs.stat(output) of the verification completes.
DlVerify(c) ==
  LET f == cache[ipc[c].id][Output(c)] IN
  /\ dl[c].dpc = "verify"
  /\ ~MicrotaskPending
  /\ IF NonEmpty(f)
     THEN Settle(c, Output(c))
     ELSE /\ dl' = [dl EXCEPT ![c] = [@ EXCEPT !.dpc = "unlink"]]
          /\ UNCHANGED <<activeDownloads, ipc>>
  /\ UNCHANGED <<cache, downloadLocks, lockResolved, orphans, http, evictVars, rangeVars, netVars>>

\* fs.unlink(output) completes (its error is ignored) and tryDownload returns
\* false: the next candidate's downloader is started, or null is returned.
DlUnlink(c) ==
  /\ dl[c].dpc = "unlink"
  /\ ~MicrotaskPending
  /\ cache' = [cache EXCEPT ![ipc[c].id][Output(c)] = "none"]
  /\ IF dl[c].k < NumCandidates
     THEN /\ dl' = [dl EXCEPT ![c] = [@ EXCEPT !.dpc = "race", !.k = @ + 1]]
          /\ UNCHANGED <<activeDownloads, ipc>>
     ELSE Settle(c, "null")
  /\ UNCHANGED <<downloadLocks, lockResolved, orphans, http, evictVars, rangeVars, netVars>>

\* A downloader process that outlived its timeout writes to its output file.
OrphanWrite(videoId, ext, content) ==
  /\ orphans[videoId][ext] > 0
  /\ cache' = [cache EXCEPT ![videoId][ext] = content]
  /\ UNCHANGED <<downloadLocks, lockResolved, activeDownloads, ipc, dl, orphans, http, evictVars, rangeVars, netVars>>

\* A downloader process that outlived its timeout exits.
OrphanExit(videoId, ext, ok) ==
  /\ orphans[videoId][ext] > 0
  /\ orphans' = [orphans EXCEPT ![videoId][ext] = @ - 1]
  /\ cache' = IF ok THEN [cache EXCEPT ![videoId][ext] = "data"] ELSE cache
  /\ UNCHANGED <<downloadLocks, lockResolved, activeDownloads, ipc, dl, http, evictVars, rangeVars, netVars>>

\* ------------- GET /api/youtube/audio/:videoId (server.ts), by turn

NoRequest == [pc |-> "idle", kind |-> "none", id |-> NoId, ext |-> "m4a", hit |-> FALSE,
              touched |-> FALSE, status |-> 0, served |-> "none"]

NextReq(r) == \A q \in Reqs : q < r => http[q].pc # "idle"

Respond(r, status) ==
  http' = [http EXCEPT ![r] = [@ EXCEPT !.pc = "done", !.ext = "m4a", !.status = status]]

\* The route handler is invoked: validation, then fs.stat of the m4a file is issued.
HttpAudio(r, videoId) ==
  /\ http[r].pc = "idle"
  /\ NextReq(r)
  /\ Started < MaxInvocations
  /\ http' = [http EXCEPT ![r] =
                IF ~isValidVideoId(videoId)
                THEN [@ EXCEPT !.pc = "done", !.kind = "audio", !.id = videoId, !.status = 400]
                ELSE [@ EXCEPT !.pc = "stat", !.kind = "audio", !.id = videoId]]
  /\ UNCHANGED <<cache, ipcVars, orphans, evictVars, rangeVars, netVars>>

\* fs.stat(cachedFile) of the cache lookup completes: a non-empty file is
\* touched; after both extensions missed the downloader is started.
HStat(r) ==
  LET f == cache[http[r].id][http[r].ext] IN
  /\ http[r].pc = "stat"
  /\ ~MicrotaskPending
  /\ http' = [http EXCEPT ![r] =
                IF NonEmpty(f) THEN [@ EXCEPT !.pc = "touch"]
                ELSE IF @.ext = "m4a" THEN [@ EXCEPT !.ext = "webm"]
                ELSE [@ EXCEPT !.pc = "race", !.ext = "m4a"]]
  /\ UNCHANGED <<cache, ipcVars, orphans, evictVars, rangeVars, netVars>>

\* fs.utimes completes: it has set the mtime of the file, or failed because
\* the file is gone (the error is ignored); streamFile issues fs.stat.
HTouch(r) ==
  /\ http[r].pc = "touch"
  /\ ~MicrotaskPending
  /\ http' = [http EXCEPT ![r] = [@ EXCEPT !.pc = "stream", !.hit = TRUE,
                                           !.touched = Exists(cache[http[r].id][http[r].ext])]]
  /\ UNCHANGED <<cache, ipcVars, orphans, evictVars, rangeVars, netVars>>

\* The awaited downloader writes to its output file (always the m4a file).
HProcWrite(r, content) ==
  /\ http[r].pc = "race"
  /\ cache' = [cache EXCEPT ![http[r].id]["m4a"] = content]
  /\ UNCHANGED <<ipcVars, orphans, http, evictVars, rangeVars, netVars>>

\* The awaited downloader exits: with code 0 fs.stat(cacheFile) is issued,
\* otherwise the catch block issues fs.unlink(cacheFile).
HProcExit(r, ok, content) ==
  /\ http[r].pc = "race"
  /\ ~MicrotaskPending
  /\ IF ok
     THEN /\ cache' = [cache EXCEPT ![http[r].id]["m4a"] = content]
          /\ http' = [http EXCEPT ![r] = [@ EXCEPT !.pc = "verify"]]
     ELSE /\ UNCHANGED cache
          /\ http' = [http EXCEPT ![r] = [@ EXCEPT !.pc = "unlink"]]
  /\ UNCHANGED <<ipcVars, orphans, evictVars, rangeVars, netVars>>

\* The timer of the race fires first; the downloader process is not stopped.
HTimeout(r) ==
  /\ http[r].pc = "race"
  /\ ~MicrotaskPending
  /\ OrphanCount < MaxOrphans
  /\ orphans' = [orphans EXCEPT ![http[r].id]["m4a"] = @ + 1]
  /\ http' = [http EXCEPT ![r] = [@ EXCEPT !.pc = "unlink"]]
  /\ UNCHANGED <<cache, ipcVars, evictVars, rangeVars, netVars>>

\* fs.stat(cacheFile) of the verification completes: an empty or missing file
\* is unlinked, a non-empty one is handed to streamFile.
HVerify(r) ==
  LET f == cache[http[r].id]["m4a"] IN
  /\ http[r].pc = "verify"
  /\ ~MicrotaskPending
  /\ http' = [http EXCEPT ![r] =
                IF NonEmpty(f) THEN [@ EXCEPT !.pc = "stream"]
                ELSE [@ EXCEPT !.pc = "unlink"]]
  /\ UNCHANGED <<cache, ipcVars, orphans, evictVars, rangeVars, netVars>>

\* fs.unlink(cacheFile) completes (its error is ignored): 500.
HUnlink(r) ==
  /\ http[r].pc = "unlink"
  /\ ~MicrotaskPending
  /\ cache' = [cache EXCEPT ![http[r].id]["m4a"] = "none"]
  /\ Respond(r, 500)
  /\ UNCHANGED <<ipcVars, orphans, evictVars, rangeVars, netVars>>

\* fs.stat of streamFile completes: the file is served with its size as
\* Content-Length, or streamFile's catch block answers 500.
HStream(r) ==
  LET f == cache[http[r].id][http[r].ext] IN
  /\ http[r].pc = "stream"
  /\ ~MicrotaskPending
  /\ http' = [http EXCEPT ![r] =
                IF Exists(f)
                THEN [@ EXCEPT !.pc = "done", !.ext = "m4a", !.status = 200, !.served = f]
                ELSE [@ EXCEPT !.pc = "done", !.ext = "m4a", !.status = 500]]
  /\ UNCHANGED <<cache, ipcVars, orphans, evictVars, rangeVars, netVars>>

\* ------ GET /api/stream/:trackId with a youtube: id (server.ts), by turn

\* The route handler is invoked with the track id 'youtube:' + videoId:
\* validation, then fs.access of the m4a file is issued.
HttpStream(r, videoId) ==
  /\ http[r].pc = "idle"
  /\ NextReq(r)
  /\ Started < MaxInvocations
  /\ http' = [http EXCEPT ![r] =
                IF ~isValidVideoId(videoId)
                THEN [@ EXCEPT !.pc = "done", !.kind = "stream", !.id = videoId, !.status = 400]
                ELSE [@ EXCEPT !.pc = "access", !.kind = "stream", !.id = videoId]]
  /\ UNCHANGED <<cache, ipcVars, orphans, evictVars, rangeVars, netVars>>

\* fs.access(cachedFile) completes: an existing file is handed to streamFile;
\* after both extensions missed the answer is 404.
HAccess(r) ==
  LET f == cache[http[r].id][http[r].ext] IN
  /\ http[r].pc = "access"
  /\ ~MicrotaskPending
  /\ http' = [http EXCEPT ![r] =
                IF Exists(f) THEN [@ EXCEPT !.pc = "stream", !.hit = TRUE]
                ELSE IF @.ext = "m4a" THEN [@ EXCEPT !.ext = "webm"]
                ELSE [@ EXCEPT !.pc = "done", !.ext = "m4a", !.status = 404]]
  /\ UNCHANGED <<cache, ipcVars, orphans, evictVars, rangeVars, netVars>>

\* ------------------------------------------- cleanupCache (main.ts)

MAX_CACHE_SIZE_MB == 500
MAX_CACHE_AGE_DAYS == 7

DayMs == 24 * 60 * 60 * 1000
MB == 1024 * 1024

\* const maxSize: twice the budget
maxSizeDouble == MAX_CACHE_SIZE_MB * 1024 * 1024 * 2

\* const maxSize = MAX_CACHE_SIZE_MB * 1024 * 1024
maxSize == MAX_CACHE_SIZE_MB * 1024 * 1024

\* const cutoffTimeLate: the cutoff one day too far in the past
cutoffTimeLate(now) == now - (MAX_CACHE_AGE_DAYS + 1) * 24 * 60 * 60 * 1000

\* const cutoffTime = Date.now() - MAX_CACHE_AGE_DAYS * 24 * 60 * 60 * 1000
cutoffTime(now) == now - MAX_CACHE_AGE_DAYS * 24 * 60 * 60 * 1000

\* The names fs.readdir can return, in the order it returns them.
CacheFiles == <<"a.m4a", "b.m4a", "c.webm">>
FileSet == {CacheFiles[n] : n \in 1..Len(CacheFiles)}

\* The sizes and modification times of the files in the directory when the
\* model starts, and the time it starts at.
FileSizes == {200 * MB, 300 * MB}
StartNow == 10 * DayMs
StartMtimes == {2 * DayMs, 3 * DayMs, 9 * DayMs}

NoFile == [present |-> FALSE, mtime |-> 0, size |-> 0]

\* stats is fileStats, queue is remainingFiles, i the index of the entry
\* whose stat or unlink is awaited.  at (Date.now() when the cutoff was
\* computed), failed (a stat or an unlink of the run failed), added (a file
\* was added while the run was past readdir), hitBefore (the files whose mtime
\* a cache hit refreshed before the run started) and lruDeleted (the files the size phase
\* deleted) record the history of the run.
NoSweep == [pc |-> "idle", files |-> << >>, i |-> 0, stats |-> << >>,
            totalSize |-> 0, cutoff |-> 0, queue |-> << >>, at |-> 0,
            failed |-> FALSE, added |-> FALSE, hitBefore |-> {},
            lruDeleted |-> {}]

\* fs.readdir(ytCacheDir)
Readdir ==
  LET Keep(n) == dir[CacheFiles[n]].present
      F[n \in 0..Len(CacheFiles)] ==
        IF n = 0 THEN << >>
        ELSE IF Keep(n) THEN Append(F[n - 1], CacheFiles[n]) ELSE F[n - 1]
  IN F[Len(CacheFiles)]

\* (a, b) => b.mtime - a.mtime: newest first
NewestFirst(a, b) == a.mtime >= b.mtime

\* (a, b) => a.mtime - b.mtime: a is not sorted after b
OldestFirst(a, b) == a.mtime <= b.mtime

\* remainingFiles.sort(...): the sort is stable, entries that compare equal
\* keep the order of the listing.
RECURSIVE InsertSorted(_, _)
InsertSorted(t, e) ==
  IF t = << >> THEN <<e>>
  ELSE IF OldestFirst(Head(t), e) THEN <<Head(t)>> \o InsertSorted(Tail(t), e)
  ELSE <<e>> \o t

\* The files left in the order of the listing.
ListingOrder(s) == s

RECURSIVE SortByMtime(_)
SortByMtime(s) ==
  IF s = << >> THEN << >>
  ELSE InsertSorted(SortByMtime(SubSeq(s, 1, Len(s) - 1)), s[Len(s)])

\* fileStats.filter(f => !f.deleted)
NotDeleted(stats) ==
  LET F[n \in 0..Len(stats)] ==
        IF n = 0 THEN << >>
        ELSE IF stats[n].deleted THEN F[n - 1] ELSE Append(F[n - 1], stats[n])
  IN F[Len(stats)]

\* An age loop that looks at the first entry of fileStats only.
FirstEntryOnly(stats, cutoff, n) ==
  IF n = 1 /\ Len(stats) >= 1 /\ stats[1].mtime < cutoff THEN 1 ELSE 0

\* The next entry of fileStats from index n on with mtime < cutoffTime, 0 when
\* there is none: the entries between are passed without an await.
RECURSIVE NextOld(_, _, _)
NextOld(stats, cutoff, n) ==
  IF n > Len(stats) THEN 0
  ELSE IF stats[n].mtime < cutoff THEN n
  ELSE NextOld(stats, cutoff, n + 1)

\* The run leaves the age loop with running total `total`: it ends, or sorts
\* the remaining files and awaits the unlink of the oldest.
SizePhase(s, stats, total) ==
  LET remainingFiles == SortByMtime(NotDeleted(stats)) IN
  IF total > maxSize /\ remainingFiles # << >>
  THEN [s EXCEPT !.pc = "size", !.stats = stats, !.totalSize = total,
                 !.queue = remainingFiles, !.i = 1]
  ELSE [s EXCEPT !.pc = "done", !.stats = stats, !.totalSize = total, !.i = 0]

\* The run leaves the stat loop: it computes the cutoff and awaits the unlink
\* of the first old file, or goes on to the size phase.
AgePhase(s, stats, total) ==
  LET cutoff == cutoffTime(enow)
      t == [s EXCEPT !.cutoff = cutoff, !.at = enow]
      n == NextOld(stats, cutoff, 1)
  IN IF n # 0
     THEN [t EXCEPT !.pc = "age", !.stats = stats, !.totalSize = total, !.i = n]
     ELSE SizePhase(t, stats, total)

\* cleanupCache() is called (at startup, by the interval timer, at shutdown).
SweepStart ==
  /\ sw.pc = "idle"
  /\ sw' = [sw EXCEPT !.pc = "readdir"]
  /\ UNCHANGED <<acqVars, enow, dir, rangeVars, netVars>>

\* await fs.readdir(ytCacheDir) resolves
SweepReaddir ==
  /\ sw.pc = "readdir"
  /\ sw' = IF Readdir = << >>
           THEN AgePhase(sw, << >>, 0)
           ELSE [sw EXCEPT !.pc = "stat", !.files = Readdir, !.i = 1]
  /\ UNCHANGED <<acqVars, enow, dir, rangeVars, netVars>>

\* await fs.readdir(ytCacheDir) rejects: the catch block of cleanupCache logs
\* the error and the run ends.
SweepReaddirFails ==
  /\ sw.pc = "readdir"
  /\ sw' = [sw EXCEPT !.pc = "done", !.failed = TRUE, !.at = enow]
  /\ UNCHANGED <<acqVars, enow, dir, rangeVars, netVars>>

\* await fs.stat(filePath) resolves (ok) or rejects: a rejected stat is
\* caught and the file is left out of fileStats and of totalSize.
SweepStat(ok) ==
  LET f == sw.files[sw.i]
      stats == IF ok
               THEN Append(sw.stats, [path |-> f, mtime |-> dir[f].mtime,
                                      size |-> dir[f].size, deleted |-> FALSE])
               ELSE sw.stats
      total == IF ok THEN sw.totalSize + dir[f].size ELSE sw.totalSize
      s == [sw EXCEPT !.failed = @ \/ ~ok]
  IN
  /\ sw.pc = "stat"
  /\ ok => dir[f].present
  /\ sw' = IF sw.i < Len(sw.files)
           THEN [s EXCEPT !.stats = stats, !.totalSize = total, !.i = @ + 1]
           ELSE AgePhase([s EXCEPT !.files = << >>], stats, total)
  /\ UNCHANGED <<acqVars, enow, dir, rangeVars, netVars>>

\* await fs.unlink(file.path) of the age loop resolves (ok) or rejects: a
\* rejected unlink is caught, the file stays counted and not marked deleted.
SweepAgeUnlink(ok) ==
  LET e == sw.stats[sw.i]
      stats == IF ok THEN [sw.stats EXCEPT ![sw.i].deleted = TRUE] ELSE sw.stats
      total == IF ok THEN sw.totalSize - e.size ELSE sw.totalSize
      s == [sw EXCEPT !.failed = @ \/ ~ok]
      n == NextOld(sw.stats, sw.cutoff, sw.i + 1)
  IN
  /\ sw.pc = "age"
  /\ ok => dir[e.path].present
  /\ dir' = IF ok THEN [dir EXCEPT ![e.path] = NoFile] ELSE dir
  /\ sw' = IF n # 0
           THEN [s EXCEPT !.stats = stats, !.totalSize = total, !.i = n]
           ELSE SizePhase(s, stats, total)
  /\ UNCHANGED <<acqVars, enow, rangeVars, netVars>>

\* await fs.unlink(file.path) of the size loop resolves (ok) or rejects; the
\* loop then breaks when totalSize <= maxSize or the list is exhausted.
SweepLruUnlink(ok) ==
  LET e == sw.queue[sw.i]
      total == IF ok THEN sw.totalSize - e.size ELSE sw.totalSize
      s == [sw EXCEPT !.failed = @ \/ ~ok, !.totalSize = total,
                      !.lruDeleted = IF ok THEN @ \cup {e.path} ELSE @]
  IN
  /\ sw.pc = "size"
  /\ ok => dir[e.path].present
  /\ dir' = IF ok THEN [dir EXCEPT ![e.path] = NoFile] ELSE dir
  /\ sw' = IF sw.i < Len(sw.queue) /\ ~(total <= maxSize)
           THEN [s EXCEPT !.i = @ + 1]
           ELSE [s EXCEPT !.pc = "done", !.i = 0, !.queue = << >>]
  /\ UNCHANGED <<acqVars, enow, rangeVars, netVars>>

\* A cache hit on the file (main.ts 659-669, server.ts 651-657): stat.size > 0,
\* then fs.utimes(cacheFile, now, now).
CacheHit(f) ==
  /\ sw.pc # "done"
  /\ dir[f].present /\ dir[f].size > 0
  /\ dir[f].mtime # enow \/ (sw.pc = "idle" /\ f \notin sw.hitBefore)
  /\ dir' = [dir EXCEPT ![f] = [@ EXCEPT !.mtime = enow]]
  /\ sw' = IF sw.pc = "idle" THEN [sw EXCEPT !.hitBefore = @ \cup {f}] ELSE sw
  /\ UNCHANGED <<acqVars, enow, rangeVars, netVars>>

\* A download stores a new file in the directory while cleanupCache runs.
FileAdded(f, size) ==
  /\ sw.pc \in {"stat", "age", "size"}
  /\ ~sw.added
  /\ ~dir[f].present
  /\ dir' = [dir EXCEPT ![f] = [present |-> TRUE, mtime |-> enow, size |-> size]]
  /\ sw' = [sw EXCEPT !.added = TRUE]
  /\ UNCHANGED <<acqVars, enow, rangeVars, netVars>>

\* A file leaves the directory while cleanupCache runs: a download that failed
\* unlinks its output, or another run of cleanupCache deletes the file.
FileRemoved(f) ==
  /\ sw.pc \in {"stat", "age", "size"}
  /\ dir[f].present
  /\ dir' = [dir EXCEPT ![f] = NoFile]
  /\ UNCHANGED <<acqVars, enow, sw, rangeVars, netVars>>

\* A day passes.
DayPasses ==
  /\ sw.pc # "done"
  /\ enow < StartNow + MaxDays * DayMs
  /\ enow' = enow + DayMs
  /\ UNCHANGED <<acqVars, dir, sw, rangeVars, netVars>>

\* --------------------------------- Range requests: strings and numbers

\* A header value is a sequence of characters.  The results of parseInt and
\* of the arithmetic on them are numbers or NaN.
NaN == [nan |-> TRUE, n |-> 0]
Num(n) == [nan |-> FALSE, n |-> n]

\* isNaN(x)
isNaN(x) == x.nan

\* The comparisons of JavaScript: false when an operand is NaN.
JsGe(a, b) == ~a.nan /\ ~b.nan /\ a.n >= b.n
JsGt(a, b) == ~a.nan /\ ~b.nan /\ a.n > b.n
JsLt(a, b) == ~a.nan /\ ~b.nan /\ a.n < b.n

\* a - b + 1
JsSpan(a, b) == IF a.nan \/ b.nan THEN NaN ELSE Num(a.n - b.n + 1)

DigitVal(c) ==
  CASE c = "0" -> 0 [] c = "1" -> 1 [] c = "2" -> 2 [] c = "3" -> 3 [] c = "4" -> 4
    [] c = "5" -> 5 [] c = "6" -> 6 [] c = "7" -> 7 [] c = "8" -> 8 [] c = "9" -> 9

\* The length of the longest run of digits of s that starts at index i.
RECURSIVE DigitRun(_, _)
DigitRun(s, i) ==
  IF i <= Len(s) /\ s[i] \in Digit THEN 1 + DigitRun(s, i + 1) ELSE 0

\* The value of the digits s[i..j].
RECURSIVE DigitsValue(_, _, _)
DigitsValue(s, i, j) ==
  IF j < i THEN 0 ELSE 10 * DigitsValue(s, i, j - 1) + DigitVal(s[j])

\* parseInt(s, 10): white space and one sign are skipped, the digits that
\* follow are read up to the first other character; NaN when there is none.
RECURSIVE SkipSpace(_, _)
SkipSpace(s, i) == IF i <= Len(s) /\ s[i] = " " THEN SkipSpace(s, i + 1) ELSE i
parseInt(s) ==
  LET i == SkipSpace(s, 1)
      neg == i <= Len(s) /\ s[i] = "-"
      j == IF i <= Len(s) /\ s[i] \in {"+", "-"} THEN i + 1 ELSE i
      k == DigitRun(s, j)
  IN IF k = 0 THEN NaN
     ELSE Num((IF neg THEN -1 ELSE 1) * DigitsValue(s, j, j + k - 1))

\* s.indexOf(pat, from): the first index >= from at which pat occurs, 0 if none.
RECURSIVE IndexOf(_, _, _)
IndexOf(s, pat, from) ==
  IF from + Len(pat) - 1 > Len(s) THEN 0
  ELSE IF SubSeq(s, from, from + Len(pat) - 1) = pat THEN from
  ELSE IndexOf(s, pat, from + 1)

\* s.replace(pat, ''): the first occurrence of pat is removed.
RemoveFirst(s, pat) ==
  LET p == IndexOf(s, pat, 1) IN
  IF p = 0 THEN s ELSE SubSeq(s, 1, p - 1) \o SubSeq(s, p + Len(pat), Len(s))

\* s.split('-')
RECURSIVE Split(_)
Split(s) ==
  LET p == IndexOf(s, <<"-">>, 1) IN
  IF p = 0 THEN <<s>> ELSE <<SubSeq(s, 1, p - 1)>> \o Split(SubSeq(s, p + 1, Len(s)))

BytesEq == <<"b", "y", "t", "e", "s", "=">>

\* rangeHeader.match(/bytes=(\d*)-(\d*)/): the leftmost 'bytes=' that a run of
\* digits and a '-' follow; the groups are the two runs of digits.  The result
\* is null (matched FALSE) when there is none.
RECURSIVE RangeMatch(_, _)
RangeMatch(s, from) ==
  LET p == IndexOf(s, BytesEq, from)
      a == p + Len(BytesEq)
      da == DigitRun(s, a)
      b == a + da + 1
      db == DigitRun(s, b)
  IN IF p = 0 THEN [matched |-> FALSE, g1 |-> << >>, g2 |-> << >>]
     ELSE IF a + da <= Len(s) /\ s[a + da] = "-"
     THEN [matched |-> TRUE, g1 |-> SubSeq(s, a, a + da - 1), g2 |-> SubSeq(s, b, b + db - 1)]
     ELSE RangeMatch(s, p + 1)

\* ------------------------------------------- Range requests: responses

\* 10 * 1024 * 1024 (main.ts): the longest chunk the protocol handler reads
\* for a Range request, and the most it reads without one.
MAX_CHUNK_SIZE == 10 * 1024 * 1024
MAX_INITIAL_SIZE == 10 * 1024 * 1024

\* No Range header (undefined, null or the empty string: all falsy).
NoRangeHeader == << >>

\* The Content-Range header: absent, `bytes first-last/size` or `bytes */size`.
NoContentRange == [kind |-> "absent", first |-> Num(0), last |-> Num(0), size |-> 0]
ContentRange(first, last, size) ==
  [kind |-> "range", first |-> first, last |-> last, size |-> size]
Unsatisfied(size) == [kind |-> "unsatisfied", first |-> Num(0), last |-> Num(0), size |-> size]

\* The Content-Length header as the handler sets it.
NoContentLength == [set |-> FALSE, v |-> Num(0)]
ContentLength(v) == [set |-> TRUE, v |-> v]

\* The body: the bytes first..last of the file ("file"; none when
\* last < first), a JSON error object, a text, nothing ("empty"), or a
\* response whose head was written and that is never ended ("open").
FileBytes(first, last) == [kind |-> "file", first |-> first, last |-> last]
Body(kind) == [kind |-> kind, first |-> 0, last |-> -1]

NoResponse == [by |-> "none", status |-> 0, contentRange |-> NoContentRange,
               contentLength |-> NoContentLength, acceptRanges |-> FALSE,
               body |-> Body("empty")]
Response(by, status, cr, cl, ar, body) ==
  [by |-> by, status |-> status, contentRange |-> cr, contentLength |-> cl,
   acceptRanges |-> ar, body |-> body]

\* end - start: the chunk is one byte short
ChunkSizeShort(end, start) == IF end.nan \/ start.nan THEN NaN ELSE Num(end.n - start.n)

\* const chunkSize = end - start + 1
ChunkSize(end, start) == JsSpan(end, start)

\* streamFile of server.ts.  createReadStream(filePath, { start, end }) throws
\* (ERR_OUT_OF_RANGE) when start or end is NaN: the head is written by then,
\* the catch block finds res.headersSent and the response stays open.
ServerStreamFile(fileSize, range) ==
  IF range = NoRangeHeader
  THEN Response("server", 200, NoContentRange, ContentLength(Num(fileSize)), TRUE,
                FileBytes(0, fileSize - 1))
  ELSE
    LET parts == Split(RemoveFirst(range, BytesEq))
        start == parseInt(parts[1])
        end == IF Len(parts) >= 2 /\ parts[2] # << >>
               THEN parseInt(parts[2]) ELSE Num(fileSize - 1)
    IN IF \/ JsGe(start, Num(fileSize)) \/ JsGe(end, Num(fileSize))
          \/ JsGt(start, end) \/ JsLt(start, Num(0))
       THEN Response("server", 416, NoContentRange, ContentLength(Num(33)), FALSE,
                     Body("json"))
       ELSE Response("server", 206, ContentRange(start, end, fileSize),
                     ContentLength(ChunkSize(end, start)), TRUE,
                     IF start.nan \/ end.nan THEN Body("open")
                     ELSE FileBytes(start.n, end.n))

\* streamFile of the production-safe server (part_000).
ProdStreamFile(size, range) ==
  IF range = NoRangeHeader
  THEN Response("prod", 200, NoContentRange, ContentLength(Num(size)), TRUE,
                FileBytes(0, size - 1))
  ELSE
    LET parts == Split(RemoveFirst(range, BytesEq))
        startStr == parts[1]
        start == IF Len(startStr) > 0 THEN parseInt(startStr) ELSE Num(0)
        end == IF Len(parts) >= 2 /\ Len(parts[2]) > 0
               THEN parseInt(parts[2]) ELSE Num(size - 1)
    IN IF \/ isNaN(start) \/ isNaN(end) \/ JsLt(start, Num(0))
          \/ JsGe(end, Num(size)) \/ JsGt(start, end)
       THEN Response("prod", 416, Unsatisfied(size), NoContentLength, FALSE,
                     Body("empty"))
       ELSE Response("prod", 206, ContentRange(start, end, size),
                     ContentLength(ChunkSize(end, start)), TRUE,
                     FileBytes(start.n, end.n))

\* The Range part of the local-audio protocol handler (main.ts).
\* Buffer.alloc(chunkSize) throws when chunkSize < 0: the outer catch answers
\* 500.  Without a Range header, or with one the pattern does not match, the
\* handler answers with the file from byte 0, at most MAX_INITIAL_SIZE of it.
ProtocolHandle(fileSize, rangeHeader) ==
  LET match == RangeMatch(rangeHeader, 1) IN
  IF rangeHeader # NoRangeHeader /\ match.matched
  THEN
    LET start == IF match.g1 # << >> THEN parseInt(match.g1) ELSE Num(0)
        end0 == IF match.g2 # << >> THEN parseInt(match.g2) ELSE Num(fileSize - 1)
        end1 == IF ChunkSize(end0, start).n > MAX_CHUNK_SIZE
                THEN Num(start.n + MAX_CHUNK_SIZE - 1) ELSE end0
        end == IF end1.n >= fileSize THEN Num(fileSize - 1) ELSE end1
        chunkSize == ChunkSize(end, start)
    IN IF start.n >= fileSize \/ start.n < 0
       THEN Response("protocol", 416, Unsatisfied(fileSize), NoContentLength, FALSE,
                     Body("text"))
       ELSE IF chunkSize.n < 0
       THEN Response("protocol", 500, NoContentRange, NoContentLength, FALSE,
                     Body("text"))
       ELSE Response("protocol", 206, ContentRange(start, end, fileSize),
                     ContentLength(chunkSize), TRUE,
                     FileBytes(start.n, start.n + chunkSize.n - 1))
  ELSE
    LET readSize == IF fileSize < MAX_INITIAL_SIZE THEN fileSize ELSE MAX_INITIAL_SIZE IN
    IF fileSize > MAX_INITIAL_SIZE
    THEN Response("protocol", 206, ContentRange(Num(0), Num(readSize - 1), fileSize),
                  ContentLength(Num(readSize)), TRUE, FileBytes(0, readSize - 1))
    ELSE Response("protocol", 200, NoContentRange, ContentLength(Num(fileSize)), TRUE,
                  FileBytes(0, readSize - 1))

\* The bounds a Range header is written with: nothing, numbers around the
\* sizes of the files, and a bound that is not a number.
RangeTokens ==
  { << >>, <<"0">>, <<"3">>, <<"7">>, <<"9">>, <<"1", "0">>, <<"1", "2">>, <<"x">>,
    <<"2", "0", "9", "7", "1", "5", "2">>,
    <<"1", "2", "5", "8", "2", "9", "1", "1">>,
    <<"1", "2", "5", "8", "2", "9", "1", "2">> }
Dash == <<"-">>

\* The Range headers of the requests: none, bytes=<a>-<b>, and headers of
\* another form (no '-', no unit, a third bound).
RangeHeaders ==
  {NoRangeHeader}
    \cup {BytesEq \o a \o Dash \o b : a \in RangeTokens, b \in RangeTokens}
    \cup { BytesEq \o <<"5">>, <<"3", "-", "7">>,
           BytesEq \o <<"3", "-", "7", "-", "9">> }

\* The sizes of the files served: empty, ten bytes, 12 MiB.
FileLens == {0, 10, 12 * MB}

\* A request for a file of rq.size bytes with Range header rq.range reaches
\* streamFile of server.ts.
StreamServer ==
  /\ rs.by = "none"
  /\ rs' = ServerStreamFile(rq.size, rq.range)
  /\ UNCHANGED <<acqVars, evictVars, rq, netVars>>

\* ... streamFile of the production-safe server.
StreamProd ==
  /\ rs.by = "none"
  /\ rs' = ProdStreamFile(rq.size, rq.range)
  /\ UNCHANGED <<acqVars, evictVars, rq, netVars>>

\* ... the local-audio protocol handler.
StreamProtocol ==
  /\ rs.by = "none"
  /\ rs' = ProtocolHandle(rq.size, rq.range)
  /\ UNCHANGED <<acqVars, evictVars, rq, netVars>>

\* ------------------------------------------- gateway: header strings

UpperSeq == <<"A", "B", "C", "D", "E", "F", "G", "H", "I", "J", "K", "L", "M",
              "N", "O", "P", "Q", "R", "S", "T", "U", "V", "W", "X", "Y", "Z">>
LowerSeq == <<"a", "b", "c", "d", "e", "f", "g", "h", "i", "j", "k", "l", "m",
              "n", "o", "p", "q", "r", "s", "t", "u", "v", "w", "x", "y", "z">>

\* s.toLowerCase()
toLowerCase(s) ==
  [i \in DOMAIN s |->
     IF \E k \in DOMAIN UpperSeq : UpperSeq[k] = s[i]
     THEN LowerSeq[CHOOSE k \in DOMAIN UpperSeq : UpperSeq[k] = s[i]]
     ELSE s[i]]

\* s.split(sep)[0]: s up to the first sep, all of s when there is none.
SplitFirst(s, sep) ==
  LET p == IndexOf(s, sep, 1) IN IF p = 0 THEN s ELSE SubSeq(s, 1, p - 1)

\* s.includes(pat)
Includes(s, pat) == IndexOf(s, pat, 1) # 0

\* The pieces of the regular expressions: each takes the index at which it
\* starts to match and gives the index after its match, 0 when it does not
\* match (and when the piece before it did not).
Lit(s, i, lit) ==
  IF i # 0 /\ i + Len(lit) - 1 <= Len(s) /\ SubSeq(s, i, i + Len(lit) - 1) = lit
  THEN i + Len(lit) ELSE 0

\* \d+ (most = 0) and \d{1,most}.  What follows either in the expressions of
\* the servers is never a digit, so the longest run of digits is the only
\* match there can be.
Digits(s, i, most) ==
  IF i = 0 THEN 0
  ELSE LET n == DigitRun(s, i) IN
       IF n = 0 \/ (most > 0 /\ n > most) THEN 0 ELSE i + n

\* (1[6-9]|2\d|3[01])
SecondOctet172(s, i) ==
  IF /\ i # 0
     /\ i + 1 <= Len(s)
     /\ \/ s[i] = "1" /\ s[i + 1] \in {"6", "7", "8", "9"}
        \/ s[i] = "2" /\ s[i + 1] \in Digit
        \/ s[i] = "3" /\ s[i + 1] \in {"0", "1"}
  THEN i + 2 ELSE 0

\* 192\.168\.D\.D | 10\.D\.D\.D | 172\.(1[6-9]|2\d|3[01])\.D\.D  where D is
\* \d+ (most = 0) or \d{1,most}
PrivateIpPattern(s, i, most) ==
  LET dot == <<".">>
      a == Digits(s, Lit(s, Digits(s, Lit(s, i, <<"1", "9", "2", ".", "1", "6", "8", ".">>), most), dot), most)
      b == Digits(s, Lit(s, Digits(s, Lit(s, Digits(s, Lit(s, i, <<"1", "0", ".">>), most),
                                         dot), most), dot), most)
      c == Digits(s, Lit(s, Digits(s, Lit(s, SecondOctet172(s, Lit(s, i, <<"1", "7", "2", ".">>)),
                                         dot), most), dot), most)
  IN IF a # 0 THEN a ELSE IF b # 0 THEN b ELSE c

\* $
AtEnd(s, i) == i = Len(s) + 1

\* (:\d+)?$
OptionalPortAtEnd(s, i) ==
  i # 0 /\ (AtEnd(s, i) \/ AtEnd(s, Digits(s, Lit(s, i, <<":">>), 0)))

\* ^https?:\/\/
HttpScheme(s) ==
  LET a == Lit(s, 1, <<"h", "t", "t", "p", ":", "/", "/">>)
      b == Lit(s, 1, <<"h", "t", "t", "p", "s", ":", "/", "/">>)
  IN IF a # 0 THEN a ELSE b

\* A header the request does not carry (undefined).
NoHeader == <<"undefined">>

\* ------------------------------------------- gateway: Host validation

\* dnsRebindingProtection of server.ts (and of the standalone server, the
\* same text): 0 when it calls next(), else the status it answers.
dnsRebindingProtection(host) ==
  IF host = NoHeader \/ host = << >> THEN 400
  ELSE LET hostname == toLowerCase(SplitFirst(host, <<":">>)) IN
       IF hostname \in {<<"l", "o", "c", "a", "l", "h", "o", "s", "t">>, <<"1", "2", "7", ".", "0", ".", "0", ".", "1">>, <<":", ":", "1">>} THEN 0
       ELSE IF AtEnd(hostname, PrivateIpPattern(hostname, 1, 0)) THEN 0
       ELSE 403

\* ALLOWED_HOSTS of the production server
ALLOWED_HOSTS == {<<"l", "o", "c", "a", "l", "h", "o", "s", "t">>, <<"1", "2", "7", ".", "0", ".", "0", ".", "1">>, <<":", ":", "1">>, <<"[", ":", ":", "1", "]">>}

\* isAllowedHost of the production server
isAllowedHost(host) ==
  IF host = NoHeader \/ host = << >> THEN FALSE
  ELSE LET hostname == toLowerCase(SplitFirst(host, <<":">>)) IN
       \/ hostname \in ALLOWED_HOSTS
       \/ AtEnd(hostname, PrivateIpPattern(hostname, 1, 3))

\* dnsRebindingProtection of the production server
dnsRebindingProtectionProd(host) == IF isAllowedHost(host) THEN 0 ELSE 403

\* ------------------------------------------- gateway: CORS

\* The origin callback of cors() in server.ts with the error handler that
\* follows it: 0 when the request goes on, else the status of the answer.
\* Both messages of the callback are messages the handler answers with 403.
corsOrigin(origin) ==
  IF origin = NoHeader THEN 0
  ELSE IF origin = <<"n", "u", "l", "l">> THEN 403
  ELSE IF Includes(origin, <<"l", "o", "c", "a", "l", "h", "o", "s", "t">>) \/ Includes(origin, <<"1", "2", "7", ".", "0", ".", "0", ".", "1">>) THEN 0
  ELSE IF PrivateIpPattern(origin, HttpScheme(origin), 0) # 0 THEN 0
  ELSE IF Includes(origin, <<"c", "a", "p", "a", "c", "i", "t", "o", "r", ":", "/", "/">>) \/ Includes(origin, <<"i", "o", "n", "i", "c", ":", "/", "/">>) THEN 0
  ELSE 403

\* The same of the standalone server: !origin lets the empty string through.
corsOriginPiped(origin) ==
  IF origin = NoHeader \/ origin = << >> THEN 0 ELSE corsOrigin(origin)

\* CORS_WHITELIST_PATTERNS.some(pattern => pattern.test(origin))
CORS_WHITELIST_PATTERNS(origin) ==
  LET h == HttpScheme(origin) IN
  \/ OptionalPortAtEnd(origin, Lit(origin, h, <<"l", "o", "c", "a", "l", "h", "o", "s", "t">>))
  \/ OptionalPortAtEnd(origin, Lit(origin, h, <<"1", "2", "7", ".", "0", ".", "0", ".", "1">>))
  \/ OptionalPortAtEnd(origin, Lit(origin, h, <<"[", ":", ":", "1", "]">>))
  \/ OptionalPortAtEnd(origin, PrivateIpPattern(origin, h, 3))

\* isAllowedOrigin of the production server
isAllowedOrigin(origin) ==
  IF origin = NoHeader \/ origin = << >> THEN TRUE ELSE CORS_WHITELIST_PATTERNS(origin)

\* cors() of the production server: the callback passes an Error without a
\* status to next(), no error handler is installed, and Express answers an
\* error that reaches its own handler with 500.
corsOriginProd(origin) == IF isAllowedOrigin(origin) THEN 0 ELSE 500

\* ------------------------------------------- gateway: the checks alone

HostInputs ==
  { NoHeader,
    <<"l", "o", "c", "a", "l", "h", "o", "s", "t">>, <<"l", "o", "c", "a", "l", "h", "o", "s", "t", ":", "3", "0", "0", "0">>, <<"L", "o", "c", "a", "l", "H", "o", "s", "t", ":", "3", "0", "0", "0">>,
    <<"1", "2", "7", ".", "0", ".", "0", ".", "1">>, <<"1", "2", "7", ".", "0", ".", "0", ".", "1", ":", "3", "0", "0", "0">>,
    <<":", ":", "1">>, <<"[", ":", ":", "1", "]">>, <<"[", ":", ":", "1", "]", ":", "3", "0", "0", "0">>,
    <<"1", "9", "2", ".", "1", "6", "8", ".", "1", ".", "5", "0", ":", "3", "0", "0", "0">>, <<"1", "0", ".", "0", ".", "0", ".", "5">>, <<"1", "7", "2", ".", "1", "6", ".", "0", ".", "9", ":", "8", "0">>, <<"1", "7", "2", ".", "3", "1", ".", "2", "5", "5", ".", "1">>,
    <<"1", "7", "2", ".", "3", "2", ".", "0", ".", "1">>, <<"1", "9", "2", ".", "1", "6", "9", ".", "1", ".", "1">>, <<"8", ".", "8", ".", "8", ".", "8">>, <<"1", "1", "0", ".", "0", ".", "0", ".", "5">>,
    <<"1", "9", "2", ".", "1", "6", "8", ".", "9", "9", "9", ".", "1", "2", "3", "4">>, <<"1", "9", "2", ".", "1", "6", "8", ".", "9", "9", "9", ".", "1">>, <<"1", "0", ".", "1", ".", "2", ".", "3", "4", "5", "6", ":", "8", "0">>,
    <<"a", "t", "t", "a", "c", "k", "e", "r", ".", "t", "e", "s", "t">>, <<"l", "o", "c", "a", "l", "h", "o", "s", "t", ".", "a", "t", "t", "a", "c", "k", "e", "r", ".", "t", "e", "s", "t">>, <<"1", "9", "2", ".", "1", "6", "8", ".", "1", ".", "5", "0", ".", "a", "t", "t", "a", "c", "k", "e", "r", ".", "t", "e", "s", "t">>,
    <<"1", "0", ".", "0", ".", "0", ".", "5", "x">> }

OriginInputs ==
  { NoHeader, <<"n", "u", "l", "l">>,
    <<"h", "t", "t", "p", ":", "/", "/", "l", "o", "c", "a", "l", "h", "o", "s", "t">>, <<"h", "t", "t", "p", ":", "/", "/", "l", "o", "c", "a", "l", "h", "o", "s", "t", ":", "5", "1", "7", "3">>, <<"h", "t", "t", "p", "s", ":", "/", "/", "1", "2", "7", ".", "0", ".", "0", ".", "1", ":", "3", "0", "0", "0">>,
    <<"h", "t", "t", "p", ":", "/", "/", "[", ":", ":", "1", "]", ":", "3", "0", "0", "0">>,
    <<"h", "t", "t", "p", ":", "/", "/", "1", "9", "2", ".", "1", "6", "8", ".", "1", ".", "5", "0", ":", "3", "0", "0", "0">>, <<"h", "t", "t", "p", "s", ":", "/", "/", "1", "0", ".", "0", ".", "0", ".", "5">>, <<"h", "t", "t", "p", ":", "/", "/", "1", "7", "2", ".", "2", "0", ".", "1", ".", "1", ":", "8", "0", "8", "0">>,
    <<"h", "t", "t", "p", "s", ":", "/", "/", "a", "t", "t", "a", "c", "k", "e", "r", ".", "t", "e", "s", "t">>, <<"h", "t", "t", "p", "s", ":", "/", "/", "l", "o", "c", "a", "l", "h", "o", "s", "t", ".", "a", "t", "t", "a", "c", "k", "e", "r", ".", "t", "e", "s", "t">>,
    <<"h", "t", "t", "p", "s", ":", "/", "/", "n", "o", "t", "l", "o", "c", "a", "l", "h", "o", "s", "t", ".", "t", "e", "s", "t">>, <<"h", "t", "t", "p", ":", "/", "/", "1", "9", "2", ".", "1", "6", "8", ".", "1", ".", "5", "0", ".", "a", "t", "t", "a", "c", "k", "e", "r", ".", "t", "e", "s", "t">>,
    <<"h", "t", "t", "p", ":", "/", "/", "1", "0", ".", "0", ".", "0", ".", "5", ":", "3", "0", "0", "0", ".", "a", "t", "t", "a", "c", "k", "e", "r", ".", "t", "e", "s", "t">>, <<"h", "t", "t", "p", "s", ":", "/", "/", "a", "t", "t", "a", "c", "k", "e", "r", ".", "t", "e", "s", "t", "/", "?", "1", "2", "7", ".", "0", ".", "0", ".", "1">>,
    <<"f", "t", "p", ":", "/", "/", "l", "o", "c", "a", "l", "h", "o", "s", "t">>, <<"c", "a", "p", "a", "c", "i", "t", "o", "r", ":", "/", "/", "a", "p", "p">>, <<"i", "o", "n", "i", "c", ":", "/", "/", "a", "p", "p">>,
    <<"h", "t", "t", "p", ":", "/", "/", "8", ".", "8", ".", "8", ".", "8">>, <<"h", "t", "t", "p", ":", "/", "/", "1", "7", "2", ".", "3", "2", ".", "0", ".", "1">> }

NoVerdict == [by |-> "none", host |-> 0, cors |-> 0]

\* The Host check and the CORS check of server.ts, each on its own.
FilterServer ==
  /\ fr.by = "none"
  /\ fr' = [by |-> "server", host |-> dnsRebindingProtection(fq.host),
            cors |-> corsOrigin(fq.origin)]
  /\ UNCHANGED <<acqVars, evictVars, rangeVars, lifeVars, streamVars, resolveVars, fq, gateVars, relayVars>>

\* The Host check and the CORS check of the production server.
FilterProd ==
  /\ fr.by = "none"
  /\ fr' = [by |-> "prod", host |-> dnsRebindingProtectionProd(fq.host),
            cors |-> corsOriginProd(fq.origin)]
  /\ UNCHANGED <<acqVars, evictVars, rangeVars, lifeVars, streamVars, resolveVars, fq, gateVars, relayVars>>

\* The Host check and the CORS check of the standalone server.
FilterPiped ==
  /\ fr.by = "none"
  /\ fr' = [by |-> "piped", host |-> dnsRebindingProtection(fq.host),
            cors |-> corsOriginPiped(fq.origin)]
  /\ UNCHANGED <<acqVars, evictVars, rangeVars, lifeVars, streamVars, resolveVars, fq, gateVars, relayVars>>

\* ------------------------------------------- gateway: rate limiting

NoEntry == [count |-> 0, resetTime |-> 0]

\* No Retry-After header on the response.
NoRetryAfter == -1

\* What a middleware leaves behind: status 0 when it called next(), else the
\* status of its answer; the Retry-After header; the map of the rate limiter.
Passed(store) == [status |-> 0, retryAfter |-> NoRetryAfter, store |-> store]
Answered(status, retryAfter, store) ==
  [status |-> status, retryAfter |-> retryAfter, store |-> store]

\* A limiter whose refusals begin a new window.
rateLimiterPenalty(store, clientIp, now) ==
  LET clientData == store[clientIp] IN
  IF clientData = NoEntry \/ now > clientData.resetTime
  THEN Passed([store EXCEPT ![clientIp] =
                 [count |-> 1, resetTime |-> now + RATE_LIMIT_WINDOW_MS]])
  ELSE IF clientData.count >= RATE_LIMIT_MAX_REQUESTS
  THEN Answered(429, NoRetryAfter,
                [store EXCEPT ![clientIp].resetTime = now + RATE_LIMIT_WINDOW_MS])
  ELSE Passed([store EXCEPT ![clientIp].count = @ + 1])

\* rateLimiter of server.ts (and of the standalone server, the same text)
rateLimiter(store, clientIp, now) ==
  LET clientData == store[clientIp] IN
  IF clientData = NoEntry \/ now > clientData.resetTime
  THEN Passed([store EXCEPT ![clientIp] =
                 [count |-> 1, resetTime |-> now + RATE_LIMIT_WINDOW_MS]])
  ELSE IF clientData.count >= RATE_LIMIT_MAX_REQUESTS
  THEN Answered(429, NoRetryAfter, store)
  ELSE Passed([store EXCEPT ![clientIp].count = @ + 1])

\* Every entry of the store, expired or not.
AnyEntry(store, now) == {ip \in DOMAIN store : store[ip] # NoEntry}

\* The callback of setInterval(..., RATE_LIMIT_WINDOW_MS) of server.ts and of
\* the standalone server.
Expired(store, now) == {ip \in DOMAIN store : store[ip] # NoEntry /\ now > store[ip].resetTime}
Cleanup(store, now) ==
  [ip \in DOMAIN store |-> IF ip \in Expired(store, now) THEN NoEntry ELSE store[ip]]

\* Math.ceil(ms / 1000) for ms >= 0
CeilSeconds(ms) == (ms + 999) \div 1000

\* rateLimitStore.size.  The model keeps the entries of the clients it does
\* not follow, which share one window, in one entry that counts for n.
Entries(entry) ==
  IF entry = NoEntry THEN 0 ELSE IF "n" \in DOMAIN entry THEN entry.n ELSE 1
RECURSIVE SizeOf(_, _)
SizeOf(store, keys) ==
  IF keys = {} THEN 0
  ELSE LET k == CHOOSE x \in keys : TRUE
       IN Entries(store[k]) + SizeOf(store, keys \ {k})
StoreSize(store) == SizeOf(store, DOMAIN store)

\* rateLimiter of the production server
rateLimiterProd(store, ip, now) ==
  LET old == store[ip]
      entry == IF old = NoEntry \/ now > old.resetTime
               THEN [count |-> 1, resetTime |-> now + RATE_LIMIT_WINDOW_MS]
               ELSE [old EXCEPT !.count = @ + 1]
      set == [store EXCEPT ![ip] = entry]
      size == StoreSize(set)
      kept == IF size > STORE_PRUNE_SIZE THEN Cleanup(set, now) ELSE set
  IN IF entry.count > RATE_LIMIT_MAX_REQUESTS
     THEN Answered(429, CeilSeconds(entry.resetTime - now), kept)
     ELSE Passed(kept)

\* rateLimiter of the production server without its pruning.
rateLimiterProdUnpruned(store, ip, now) ==
  LET old == store[ip]
      entry == IF old = NoEntry \/ now > old.resetTime
               THEN [count |-> 1, resetTime |-> now + RATE_LIMIT_WINDOW_MS]
               ELSE [old EXCEPT !.count = @ + 1]
      set == [store EXCEPT ![ip] = entry]
  IN IF entry.count > RATE_LIMIT_MAX_REQUESTS
     THEN Answered(429, CeilSeconds(entry.resetTime - now), set)
     ELSE Passed(set)

\* The rate limiter of a server on a store that is never pruned.
Unpruned(impl, store, ip, now) ==
  IF impl = "prod" THEN rateLimiterProdUnpruned(store, ip, now)
  ELSE rateLimiter(store, ip, now)

\* The twin store follows a store from its beginning.
Twin(store) == [store |-> store, status |-> 0]

\* ------------------------------------------- gateway: authentication

\* config.authToken / AUTH_TOKEN not given
NoToken == << >>

\* generateAuthToken(): crypto.randomBytes(32).toString('hex'), shortened
generateAuthToken == <<"9", "f", "e", "0">>

\* The token an operator configures.
ConfiguredToken == <<"s", "3", "c", "r", "e", "t">>

\* The server after construction: server.ts and the standalone server
\* generate a token when none is configured, the production server does not.
Construct(impl, configured) ==
  [impl |-> impl, configured |-> configured,
   authToken |-> IF configured # NoToken THEN configured
                 ELSE IF impl = "prod" THEN NoToken
                 ELSE generateAuthToken]

\* Is the path under the mount point /api, and req.path in a middleware
\* mounted there.
UnderApi(path) == Lit(path, 1, <<"/", "a", "p", "i", "/">>) # 0
MountedPath(path) == SubSeq(path, Len(<<"/", "a", "p", "i">>) + 1, Len(path))

\* req.headers['x-auth-token'] || req.headers['authorization'], then
\* typeof authHeader === 'string' ? authHeader.replace('Bearer ', '') : undefined
PresentedToken(q) ==
  LET authHeader == IF q.xAuthToken # NoHeader /\ q.xAuthToken # << >>
                    THEN q.xAuthToken ELSE q.authorization
  IN IF authHeader = NoHeader THEN NoHeader
     ELSE RemoveFirst(authHeader, <<"B", "e", "a", "r", "e", "r", " ">>)

\* A request without a token header is let through.
authServerLax(q, authToken) ==
  IF PresentedToken(q) = NoHeader THEN 0
  ELSE IF PresentedToken(q) # authToken THEN 401
  ELSE 0

\* The authentication middleware of server.ts
authServer(q, authToken) ==
  IF MountedPath(q.path) = <<"/", "h", "e", "a", "l", "t", "h">> THEN 0
  ELSE IF MountedPath(q.path) = <<"/", "y", "o", "u", "t", "u", "b", "e", "/", "s", "e", "a", "r", "c", "h">> /\ q.method = "GET" THEN 0
  ELSE IF PresentedToken(q) # authToken THEN 401
  ELSE 0

\* authMiddleware of the standalone server: req.path is compared with
\* '/api/health' under the mount point /api
authMiddleware(q, serverAuthToken) ==
  IF MountedPath(q.path) = <<"/", "a", "p", "i", "/", "h", "e", "a", "l", "t", "h">> THEN 0
  ELSE IF PresentedToken(q) # serverAuthToken THEN 401
  ELSE 0

\* The authentication middleware of the production server, installed only
\* if (config.authToken)
authProd(q, authToken) ==
  IF authToken = NoToken THEN 0
  ELSE IF MountedPath(q.path) \in {<<"/", "h", "e", "a", "l", "t", "h">>, <<"/", "y", "o", "u", "t", "u", "b", "e", "/", "s", "e", "a", "r", "c", "h">>} THEN 0
  ELSE IF q.xAuthToken # authToken THEN 401
  ELSE 0

\* ------------------------------------------- gateway: the middleware chain

\* The checks in the order of the app.use calls that install them.
RateFirst(impl) == <<"rate", "host", "cors", "auth">>
Pipeline(impl) == <<"host", "rate", "cors", "auth">>

\* One check of one server on request q.
RunStage(impl, stage, q, store, now, authToken) ==
  CASE stage = "host" ->
         Answered(IF impl = "prod" THEN dnsRebindingProtectionProd(q.host)
                  ELSE dnsRebindingProtection(q.host), NoRetryAfter, store)
    [] stage = "rate" ->
         IF impl = "prod"
         THEN IF UnderApi(q.path) THEN rateLimiterProd(store, q.ip, now) ELSE Passed(store)
         ELSE rateLimiter(store, q.ip, now)
    [] stage = "cors" ->
         Answered(CASE impl = "server" -> corsOrigin(q.origin)
                    [] impl = "prod" -> corsOriginProd(q.origin)
                    [] impl = "piped" -> corsOriginPiped(q.origin), NoRetryAfter, store)
    [] stage = "auth" ->
         IF ~UnderApi(q.path) THEN Passed(store)
         ELSE Answered(CASE impl = "server" -> authServer(q, authToken)
                         [] impl = "prod" -> authProd(q, authToken)
                         [] impl = "piped" -> authMiddleware(q, authToken),
                       NoRetryAfter, store)

\* Express runs the middleware in order until one answers; a request that
\* passes them all reaches the routes (and the static files).
RECURSIVE RunFrom(_, _, _, _, _, _, _)
RunFrom(impl, k, q, stages, store, now, authToken) ==
  IF k > Len(Pipeline(impl))
  THEN [q |-> q, stages |-> stages, status |-> 0, retryAfter |-> NoRetryAfter,
        handler |-> TRUE, store |-> store]
  ELSE CHOOSE out \in
         { IF r.status # 0
           THEN [q |-> q, stages |-> Append(stages, Pipeline(impl)[k]),
                 status |-> r.status, retryAfter |-> r.retryAfter,
                 handler |-> FALSE, store |-> r.store]
           ELSE RunFrom(impl, k + 1, q, Append(stages, Pipeline(impl)[k]), r.store,
                        now, authToken) :
           r \in {RunStage(impl, Pipeline(impl)[k], q, store, now, authToken)} } : TRUE

NoExchange ==
  [q |-> [host |-> NoHeader, ip |-> "", origin |-> NoHeader, path |-> << >>,
          method |-> "", xAuthToken |-> NoHeader, authorization |-> NoHeader],
   stages |-> << >>, status |-> 0, retryAfter |-> NoRetryAfter, handler |-> FALSE,
   before |-> NoEntry]

\* The request has come to the rate limiter and was counted by it.
Counted(impl, q, stages) ==
  /\ \E k \in 1..Len(stages) : stages[k] = "rate"
  /\ impl = "prod" => UnderApi(q.path)

\* A request arrives and goes through the middleware of the server.
Serve(q) ==
  /\ left > 0
  /\ left' = left - 1
  /\ \E out \in {RunFrom(srv.impl, 1, q, << >>, rateLimitStore, gnow, srv.authToken)} :
       /\ rateLimitStore' = out.store
       /\ rr' = [q |-> q, stages |-> out.stages, status |-> out.status,
                 retryAfter |-> out.retryAfter, handler |-> out.handler,
                 before |-> rateLimitStore[q.ip]]
       /\ unpruned' =
            IF Counted(srv.impl, q, out.stages)
            THEN LET twin == Unpruned(srv.impl, unpruned.store, q.ip, gnow)
                 IN [store |-> twin.store, status |-> twin.status]
            ELSE [unpruned EXCEPT !.status = 0]
  /\ UNCHANGED <<acqVars, evictVars, rangeVars, lifeVars, streamVars, resolveVars, filterVars, srv, gnow, relayVars>>

ServeServer(q) == srv.impl = "server" /\ Serve(q)

ServePiped(q) == srv.impl = "piped" /\ Serve(q)

ServeProd(q) == srv.impl = "prod" /\ Serve(q)

\* The timer of server.ts and of the standalone server fires.
RateLimitCleanup ==
  /\ srv.impl \in {"server", "piped"}
  /\ Expired(rateLimitStore, gnow) # {}
  /\ rateLimitStore' = Cleanup(rateLimitStore, gnow)
  /\ UNCHANGED <<acqVars, evictVars, rangeVars, lifeVars, streamVars, resolveVars, filterVars, srv, unpruned, gnow, rr, left, relayVars>>

\* One window of the rate limiter passes.
WindowPasses ==
  /\ gnow < MaxWindows * RATE_LIMIT_WINDOW_MS
  /\ gnow' = gnow + RATE_LIMIT_WINDOW_MS
  /\ UNCHANGED <<acqVars, evictVars, rangeVars, lifeVars, streamVars, resolveVars, filterVars, srv, rateLimitStore, unpruned, rr, left, relayVars>>

\* The requests of the model.
Ips == {"192.168.1.77", "192.168.1.78"}
GoodHost == <<"1", "9", "2", ".", "1", "6", "8", ".", "1", ".", "5", "0", ":", "3", "0", "0", "0">>
GateHosts == {GoodHost, <<"a", "t", "t", "a", "c", "k", "e", "r", ".", "t", "e", "s", "t">>}
GateOrigins == {NoHeader, <<"h", "t", "t", "p", "s", ":", "/", "/", "a", "t", "t", "a", "c", "k", "e", "r", ".", "t", "e", "s", "t">>}
Tracks == [method |-> "GET", path |-> <<"/", "a", "p", "i", "/", "t", "r", "a", "c", "k", "s">>]
Routes ==
  { [method |-> "GET", path |-> <<"/", "a", "p", "i", "/", "h", "e", "a", "l", "t", "h">>],
    [method |-> "GET", path |-> <<"/", "a", "p", "i", "/", "y", "o", "u", "t", "u", "b", "e", "/", "s", "e", "a", "r", "c", "h">>],
    [method |-> "POST", path |-> <<"/", "a", "p", "i", "/", "y", "o", "u", "t", "u", "b", "e", "/", "s", "e", "a", "r", "c", "h">>],
    Tracks,
    [method |-> "GET", path |-> <<"/", "i", "n", "d", "e", "x", ".", "h", "t", "m", "l">>] }
Bearer(token) == <<"B", "e", "a", "r", "e", "r", " ">> \o token
NoCredentials == [xAuthToken |-> NoHeader, authorization |-> NoHeader]
Credentials ==
  { NoCredentials,
    [xAuthToken |-> ConfiguredToken, authorization |-> NoHeader],
    [xAuthToken |-> generateAuthToken, authorization |-> NoHeader],
    [xAuthToken |-> NoHeader, authorization |-> Bearer(ConfiguredToken)],
    [xAuthToken |-> NoHeader, authorization |-> Bearer(generateAuthToken)],
    [xAuthToken |-> NoHeader, authorization |-> ConfiguredToken],
    [xAuthToken |-> generateAuthToken, authorization |-> Bearer(ConfiguredToken)],
    [xAuthToken |-> ConfiguredToken, authorization |-> Bearer(generateAuthToken)] }
Request(h, ip, o, r, c) ==
  [host |-> h, ip |-> ip, origin |-> o, path |-> r.path, method |-> r.method,
   xAuthToken |-> c.xAuthToken, authorization |-> c.authorization]

\* Requests that fail any of the checks, and requests to every route with
\* every credential.
Requests ==
  { Request(h, ip, o, Tracks, c) :
      h \in GateHosts, ip \in Ips, o \in GateOrigins,
      c \in {k \in Credentials : k.authorization = NoHeader} }
  \cup { Request(GoodHost, "192.168.1.77", NoHeader, r, c) : r \in Routes, c \in Credentials }

\* The request of one client that is counted.
RateRequests == {Request(GoodHost, "192.168.1.77", NoHeader, Tracks, NoCredentials)}

\* ------------------------------------------- relay: the standalone servers

\* Maximum proxy size limit and maximum redirect depth of the standalone
\* server; the timeout of fetchJson is a timer of its own.
MAX_PROXY_SIZE == 100 * 1024 * 1024
MAX_REDIRECT_DEPTH == 5

\* PIPED_INSTANCES.length: the standalone server ("piped") and its earlier
\* version src/server/index.ts ("index").
NumInstances(impl) == IF impl = "piped" THEN 5 ELSE 4

\* The request for /api/youtube/audio/:videoId and its relay.
\*   pc             idle, resolve (fetchJson of an instance awaited), connect
\*                  (the answer to proxyReq awaited), stream (proxyRes piped
\*                  into res), done
\*   i              the loop variable of getPipedAudioUrl
\*   redirectDepth  the argument of the running proxyStream
\*   requests       the requests client.get has issued to the upstream
\*   redirects      the redirects the upstream has answered
\*   status, body   the response: body none, json, stream
\*   ended          res.end() was called (by the handler or by the pipe)
\*   declared       Content-Length of the upstream response, 0 when absent
\*   streamedBytes  the counter of the 'data' listener
\*   delivered      the bytes written into res
\*   chunks         the chunks the upstream has sent
\*   upstream       none, open, ended, destroyed
\*   open           the requests to the upstream, by their number, whose
\*                  connection is open
\*   client         open, closed
\*   closedIn       the pc at which the client went away
NoRelay ==
  [impl |-> "none", pc |-> "idle", i |-> 0, redirectDepth |-> 0, requests |-> 0,
   redirects |-> 0, status |-> 0, body |-> "none", ended |-> FALSE, declared |-> 0,
   streamedBytes |-> 0, delivered |-> 0, chunks |-> 0, upstream |-> "none",
   open |-> {}, client |-> "open", closedIn |-> "none"]

\* res.headersSent
headersSent(r) == r.body # "none"

\* res.status(status).json(...)
Json(r, status) == [r EXCEPT !.status = status, !.body = "json", !.ended = TRUE, !.pc = "done"]

\* The video id check of the route: isValidVideoId in the standalone server,
\* !videoId || videoId.length < 5 in src/server/index.ts.
RouteAcceptsId(impl, videoId) ==
  IF impl = "piped" THEN isValidVideoId(videoId) ELSE Len(videoId) >= 5

\* app.get('/api/youtube/audio/:videoId'): up to the first await of fetchJson
AudioRequest(impl, videoId) ==
  /\ rl.pc = "idle"
  /\ rl' = IF ~RouteAcceptsId(impl, videoId)
           THEN Json([rl EXCEPT !.impl = impl], 400)
           ELSE [rl EXCEPT !.impl = impl, !.pc = "resolve", !.i = 0]
  /\ UNCHANGED <<acqVars, evictVars, rangeVars, lifeVars, streamVars, resolveVars, filterVars, gateVars>>

\* proxyStream(sourceUrl, req, res, redirectDepth): the standalone server
\* answers 508 beyond MAX_REDIRECT_DEPTH, src/server/index.ts has no depth.
proxyStream(r, redirectDepth) ==
  IF r.impl = "piped" /\ redirectDepth > MAX_REDIRECT_DEPTH
  THEN IF ~headersSent(r) THEN Json(r, 508) ELSE [r EXCEPT !.pc = "done"]
  ELSE [r EXCEPT !.pc = "connect", !.redirectDepth = redirectDepth,
                 !.requests = @ + 1, !.upstream = "open",
                 !.open = @ \cup {r.requests + 1}]

\* The loop of getPipedAudioUrl goes on after an instance that failed; the
\* route answers 404 when there is none left.
NextInstance(r) ==
  IF r.i + 1 < NumInstances(r.impl) THEN [r EXCEPT !.i = @ + 1] ELSE Json(r, 404)

\* fetchJson resolves: with an audio stream the route calls proxyStream,
\* without one (or with an error of the instance) the loop goes on.
PipedAnswers(found) ==
  /\ rl.pc = "resolve"
  /\ rl' = IF found THEN proxyStream(rl, 0) ELSE NextInstance(rl)
  /\ UNCHANGED <<acqVars, evictVars, rangeVars, lifeVars, streamVars, resolveVars, filterVars, gateVars>>

\* req.setTimeout(15000, ...) of fetchJson fires: the promise is rejected.
FetchTimeout ==
  /\ rl.pc = "resolve"
  /\ rl' = NextInstance(rl)
  /\ UNCHANGED <<acqVars, evictVars, rangeVars, lifeVars, streamVars, resolveVars, filterVars, gateVars>>

\* The upstream answers 301 or 302 with a Location header.
UpstreamRedirects ==
  /\ rl.pc = "connect"
  /\ rl.requests < MaxUpstream
  /\ rl' = proxyStream([rl EXCEPT !.redirects = @ + 1], rl.redirectDepth + 1)
  /\ UNCHANGED <<acqVars, evictVars, rangeVars, lifeVars, streamVars, resolveVars, filterVars, gateVars>>

\* The upstream answers with another status (or a redirect without
\* Location): the check of Content-Length, then status and headers are
\* forwarded and proxyRes is piped into res.
UpstreamResponds(declared) ==
  /\ rl.pc = "connect"
  /\ rl' = IF rl.impl = "piped" /\ declared > MAX_PROXY_SIZE
           THEN IF ~headersSent(rl)
                THEN [Json(rl, 413) EXCEPT !.declared = declared, !.upstream = "destroyed",
                                           !.open = @ \ {rl.requests}]
                ELSE [rl EXCEPT !.declared = declared, !.upstream = "destroyed",
                                !.open = @ \ {rl.requests}, !.pc = "done"]
           ELSE [rl EXCEPT !.pc = "stream", !.status = 200, !.declared = declared]
  /\ UNCHANGED <<acqVars, evictVars, rangeVars, lifeVars, streamVars, resolveVars, filterVars, gateVars>>

\* proxyReq.on('error')
UpstreamFails ==
  /\ rl.pc = "connect"
  /\ rl' = IF ~headersSent(rl)
           THEN [Json(rl, 502) EXCEPT !.upstream = "destroyed", !.open = @ \ {rl.requests}]
           ELSE [rl EXCEPT !.upstream = "destroyed", !.open = @ \ {rl.requests},
                           !.pc = "done"]
  /\ UNCHANGED <<acqVars, evictVars, rangeVars, lifeVars, streamVars, resolveVars, filterVars, gateVars>>

\* The listeners of 'data' on proxyRes in the order they were added: the
\* counter of the standalone server (proxyRes.on('data', ...)), then the one
\* of proxyRes.pipe(res).
PipeFirst(impl) == <<"pipe", "count">>
Listeners(impl) == IF impl = "piped" THEN <<"count", "pipe">> ELSE <<"pipe">>

\* One listener receives a chunk.  A write into res after res.end() is
\* refused.
Listen(r, listener, size) ==
  IF listener = "count"
  THEN LET n == r.streamedBytes + size IN
       IF n > MAX_PROXY_SIZE
       THEN [r EXCEPT !.streamedBytes = n, !.upstream = "destroyed", !.ended = TRUE,
                      !.open = @ \ {r.requests}, !.pc = "done"]
       ELSE [r EXCEPT !.streamedBytes = n]
  ELSE IF r.ended THEN r
       ELSE [r EXCEPT !.delivered = @ + size, !.body = "stream"]

RECURSIVE Emit(_, _, _)
Emit(r, k, size) ==
  IF k > Len(Listeners(r.impl)) THEN r
  ELSE Emit(Listen(r, Listeners(r.impl)[k], size), k + 1, size)

\* The upstream sends a chunk of the body; a body with a declared length
\* has no more bytes than declared.
UpstreamChunk(size) ==
  /\ rl.pc = "stream"
  /\ rl.chunks < MaxChunks
  /\ rl.declared = 0 \/ rl.delivered + size <= rl.declared
  /\ rl' = Emit([rl EXCEPT !.chunks = @ + 1], 1, size)
  /\ UNCHANGED <<acqVars, evictVars, rangeVars, lifeVars, streamVars, resolveVars, filterVars, gateVars>>

\* The body of the upstream ends: the pipe ends res.
UpstreamEnds ==
  /\ rl.pc = "stream"
  /\ rl' = [rl EXCEPT !.upstream = "ended", !.ended = TRUE, !.body = "stream",
                      !.open = @ \ {rl.requests}, !.pc = "done"]
  /\ UNCHANGED <<acqVars, evictVars, rangeVars, lifeVars, streamVars, resolveVars, filterVars, gateVars>>

\* The request the running proxyStream has opened, and no other.
LastRequest(r) == {r.requests}

\* The requests whose proxyReq a listener of req.on('close') destroys: each
\* call of proxyStream, the ones for a redirect too, has added its own.
CloseListeners(r) == 1..r.requests

\* req.on('close'): the client goes away, proxyReq.destroy().
ClientCloses ==
  /\ rl.pc \in {"connect", "stream"}
  /\ rl.client = "open"
  /\ rl' = [rl EXCEPT !.client = "closed", !.closedIn = rl.pc, !.upstream = "destroyed",
                      !.open = @ \ CloseListeners(rl), !.pc = "done"]
  /\ UNCHANGED <<acqVars, evictVars, rangeVars, lifeVars, streamVars, resolveVars, filterVars, gateVars>>

\* The client goes away while getPipedAudioUrl is awaited: no listener of
\* req.on('close') is registered yet, and the ones proxyStream registers
\* afterwards are not called.
ClientClosesEarly ==
  /\ rl.pc = "resolve"
  /\ rl.client = "open"
  /\ rl' = [rl EXCEPT !.client = "closed", !.closedIn = "resolve"]
  /\ UNCHANGED <<acqVars, evictVars, rangeVars, lifeVars, streamVars, resolveVars, filterVars, gateVars>>

Relays == {"piped", "index"}
ChunkSizes == {1, 60 * MB, MAX_PROXY_SIZE}
DeclaredLengths == {0, 60 * MB, MAX_PROXY_SIZE, MAX_PROXY_SIZE + 1}

\* ------------------------------------- the main process and its sweeps

\* The main process after main.ts has been evaluated: the sweep of the
\* startup runs, the timer is set, the media server is not created yet.
\* gs is the position of the one call of gracefulShutdown that passed the
\* test of isQuitting, owner the handler that awaits it.
NoLife ==
  [startup |-> "running", periodic |-> 0, ticks |-> 0, lateSweeps |-> 0,
   final |-> "none", finals |-> 0, cacheCleanupInterval |-> TRUE,
   mediaServer |-> "none", gs |-> "idle", owner |-> "none",
   requests |-> 0, exited |-> "no"]

isQuitting == life.gs # "idle"
shutdownComplete == life.gs = "done"

LifeOthers == <<acqVars, evictVars, rangeVars, filterVars, gateVars, relayVars, streamVars, resolveVars>>

\* app.whenReady().then(...): the media server is created and listens.
WhenReady ==
  /\ life.exited = "no"
  /\ life.mediaServer = "none"
  /\ life' = [life EXCEPT !.mediaServer = "listening"]
  /\ UNCHANGED LifeOthers

\* The timer set by setInterval(cleanupCache, CACHE_CLEANUP_INTERVAL_MS)
\* fires: a sweep starts.
IntervalTick ==
  /\ life.exited = "no"
  /\ life.cacheCleanupInterval
  /\ life.ticks < MaxSweepTicks
  /\ life' = [life EXCEPT !.ticks = @ + 1,
                          !.periodic = @ + 1,
                          !.lateSweeps = IF isQuitting THEN @ + 1 ELSE @]
  /\ UNCHANGED LifeOthers

\* The sweep of the startup, or a sweep of the timer, returns.
SweepReturns(kind) ==
  /\ life.exited = "no"
  /\ \/ /\ kind = "startup"
        /\ life.startup = "running"
        /\ life' = [life EXCEPT !.startup = "done"]
     \/ /\ kind = "timer"
        /\ life.periodic > 0
        /\ life' = [life EXCEPT !.periodic = @ - 1]
  /\ UNCHANGED LifeOthers

\* gracefulShutdown up to its first await, in a call that passes the test
\* of isQuitting: the timer is cleared; with a media server the call waits
\* for it to close, without one it calls cleanupCache.
BeginShutdown(kind) ==
  IF life.mediaServer = "listening"
  THEN [life EXCEPT !.gs = "closing", !.owner = kind,
                    !.cacheCleanupInterval = FALSE, !.requests = @ + 1]
  ELSE [life EXCEPT !.gs = "sweeping", !.owner = kind,
                    !.cacheCleanupInterval = FALSE, !.requests = @ + 1,
                    !.final = "running", !.finals = @ + 1]

\* A 'before-quit' event (app.quit(), the last window closed, the menu).
\* With shutdownComplete the quit goes on: 'will-quit' clears the timer
\* and the process ends.  Without it the quit is prevented and the handler
\* awaits gracefulShutdown; when that returns at once, the handler calls
\* app.quit() again, which emits the event again, and so on until
\* shutdownComplete: no exit comes of it.
BeforeQuit ==
  /\ life.exited = "no"
  /\ life.requests < MaxShutdownRequests
  /\ life' = IF shutdownComplete
               THEN [life EXCEPT !.exited = "quit", !.requests = @ + 1,
                                 !.cacheCleanupInterval = FALSE]
               ELSE IF isQuitting
                 THEN [life EXCEPT !.requests = @ + 1]
                 ELSE BeginShutdown("before-quit")
  /\ UNCHANGED LifeOthers

\* SIGTERM or SIGINT: the handler awaits gracefulShutdown and then calls
\* process.exit(0).  A call of gracefulShutdown that finds isQuitting set
\* returns at once, and the exit follows in the same turn.
Signal ==
  /\ life.exited = "no"
  /\ life.requests < MaxShutdownRequests
  /\ life' = IF isQuitting
               THEN [life EXCEPT !.exited = "exit", !.requests = @ + 1]
               ELSE BeginShutdown("signal")
  /\ UNCHANGED LifeOthers

\* The media server has closed, or the 5000 ms have passed:
\* gracefulShutdown calls cleanupCache.
ServerClosed ==
  /\ life.exited = "no"
  /\ life.gs = "closing"
  /\ life' = [life EXCEPT !.gs = "sweeping", !.mediaServer = "closed",
                          !.final = "running", !.finals = @ + 1]
  /\ UNCHANGED LifeOthers

\* The final sweep returns: shutdownComplete is set and the handler that
\* awaited gracefulShutdown goes on, with app.quit() after 'before-quit',
\* with process.exit(0) after a signal.
FinalSweepReturns ==
  /\ life.exited = "no"
  /\ life.gs = "sweeping"
  /\ life' = [life EXCEPT !.gs = "done", !.final = "done",
                          !.exited = IF life.owner = "signal" THEN "exit" ELSE "quit"]
  /\ UNCHANGED LifeOthers

\* ------------------------------------------ a read stream of streamFile

\* The reads of one stream that the model follows.
MaxReads == 2

STREAM_INACTIVITY_TIMEOUT == 30000
TIMEOUT_CHECK_MS == 5000

\* A request before streamFile is called.  idle is Date.now() - lastActivity
\* as the next timeoutCheck will see it; how holds the ways of ending whose
\* handler has run.
NoStream ==
  [pc |-> "idle", stream |-> "none", timeoutCheck |-> "none", idle |-> 0,
   reads |-> 0, headersSent |-> FALSE, writableEnded |-> FALSE,
   closed |-> FALSE, status |-> 0, how |-> {}]

StreamOthers == <<acqVars, evictVars, rangeVars, filterVars, gateVars, relayVars, lifeVars, resolveVars>>

\* The inactivity test of timeoutCheck that no stream meets.
NeverInactive(idle) == FALSE

\* Date.now() - lastActivity > STREAM_INACTIVITY_TIMEOUT
Inactive(idle) == idle > STREAM_INACTIVITY_TIMEOUT

\* stream.destroy(): a stream that has ended was closed by autoClose.
Destroy(s) == IF s \in {"flowing", "paused"} THEN "destroyed" ELSE s

\* streamFile is called and awaits fs.stat.
StreamFileCall ==
  /\ st.pc = "idle"
  /\ st' = [st EXCEPT !.pc = "stat"]
  /\ UNCHANGED StreamOthers

\* fs.stat returns.  On a rejection the catch answers 500; on a range that
\* cannot be served the answer is 416; otherwise writeHead, createReadStream
\* and setupStream: the timer is set, the listeners are registered, the
\* stream is piped into res.
StreamStatReturns(outcome) ==
  /\ st.pc = "stat"
  /\ st' = CASE outcome = "rejects" ->
                  [st EXCEPT !.pc = "done", !.status = 500,
                             !.headersSent = TRUE, !.writableEnded = TRUE]
             [] outcome = "unsatisfiable" ->
                  [st EXCEPT !.pc = "done", !.status = 416,
                             !.headersSent = TRUE, !.writableEnded = TRUE]
             [] OTHER ->
                  [st EXCEPT !.pc = "open", !.status = 200, !.headersSent = TRUE,
                             !.stream = "flowing", !.timeoutCheck = "set",
                             !.idle = 0]
  /\ UNCHANGED StreamOthers

\* stream.on('data'): lastActivity = Date.now(), and the pipe writes the
\* chunk to res.  A write that returns false pauses the stream until
\* 'drain'; what a write to a response that has closed returns is left
\* open.
StreamData(full) ==
  /\ st.stream = "flowing"
  /\ st.reads < MaxReads
  /\ st' = [st EXCEPT !.reads = @ + 1, !.idle = 0,
                      !.stream = IF full THEN "paused" ELSE "flowing"]
  /\ UNCHANGED StreamOthers

\* res emits 'drain': the pipe resumes the stream.
ResDrain ==
  /\ st.stream = "paused"
  /\ ~st.closed
  /\ st' = [st EXCEPT !.stream = "flowing"]
  /\ UNCHANGED StreamOthers

\* stream.on('end'): clearInterval; the pipe ends res; the stream closes
\* its descriptor.
StreamEnd ==
  /\ st.stream = "flowing"
  /\ st' = [st EXCEPT !.stream = "ended", !.timeoutCheck = "cleared",
                      !.writableEnded = TRUE, !.how = @ \cup {"end"}]
  /\ UNCHANGED StreamOthers

\* stream.on('error'): clearInterval, no answer after the headers were
\* sent, stream.destroy().
StreamError ==
  /\ st.stream = "flowing"
  /\ st' = [st EXCEPT !.stream = Destroy(@), !.timeoutCheck = "cleared",
                      !.how = @ \cup {"readError"}]
  /\ UNCHANGED StreamOthers

\* res emits 'close': the client has gone, or the response is over.  The
\* listener of setupStream runs when it was registered before.
ResClose ==
  /\ st.pc \in {"stat", "open"}
  /\ ~st.closed
  /\ st' = IF st.pc = "open"
             THEN [st EXCEPT !.closed = TRUE, !.stream = Destroy(@),
                             !.timeoutCheck = "cleared", !.how = @ \cup {"close"}]
             ELSE [st EXCEPT !.closed = TRUE]
  /\ UNCHANGED StreamOthers

\* res emits 'error'.
ResError ==
  /\ st.pc = "open"
  /\ ~st.closed
  /\ st' = [st EXCEPT !.stream = Destroy(@), !.timeoutCheck = "cleared",
                      !.how = @ \cup {"resError"}]
  /\ UNCHANGED StreamOthers

\* The time without activity up to which the model counts: the first value
\* a check can see that is over the timeout.
IdleCap == STREAM_INACTIVITY_TIMEOUT + TIMEOUT_CHECK_MS

\* The callback of setInterval(..., 5000).
TimeoutCheck ==
  /\ st.timeoutCheck = "set"
  /\ \E idle \in {IF st.idle + TIMEOUT_CHECK_MS > IdleCap
                   THEN IdleCap ELSE st.idle + TIMEOUT_CHECK_MS} :
       st' = IF Inactive(idle)
               THEN [st EXCEPT !.idle = idle, !.timeoutCheck = "cleared",
                               !.stream = Destroy(@), !.writableEnded = TRUE,
                               !.how = @ \cup {"timeout"}]
               ELSE [st EXCEPT !.idle = idle]
  /\ UNCHANGED StreamOthers

\* ------------------------------------- resolve: getPipedAudioUrl, shared

\* The calls of getPipedAudioUrl that run at one time, and the calls the
\* model starts.
NumResolvers == 2
MaxResolves == 3

Resolvers == 1..NumResolvers

\* One call of getPipedAudioUrl: i is its loop variable, instanceIndex the
\* constant of the iteration that awaits fetchJson, queried the instances it
\* has asked, result "url" or "null" after the return.
NoResolveCall ==
  [pc |-> "idle", i |-> 0, instanceIndex |-> 0, queried |-> << >>, result |-> "none"]

\* The server after its module was evaluated: currentPipedIndex = 0.  since
\* holds the instance of the last success, or the initial index.
NoResolve ==
  [impl |-> "piped", currentPipedIndex |-> 0, since |-> 0,
   calls |-> [c \in Resolvers |-> NoResolveCall], started |-> 0]

ResolveOthers == <<acqVars, evictVars, rangeVars, filterVars, gateVars, relayVars, lifeVars, streamVars>>

\* The loop variable, not the instance.
LoopVariable(call) == call.i

\* currentPipedIndex = instanceIndex // Remember working instance
WorkingInstance(call) == call.instanceIndex

\* One iteration of the loop up to its await: the instance is counted from
\* currentPipedIndex as it is now.
Iterate(call, i, current, n) ==
  LET instanceIndex == (current + i) % n
  IN [call EXCEPT !.pc = "fetch", !.i = i, !.instanceIndex = instanceIndex,
                  !.queried = Append(@, instanceIndex)]

\* The route calls getPipedAudioUrl with an id it has validated: the first
\* iteration up to the await of fetchJson.
ResolveCall(c) ==
  /\ pv.calls[c].pc \in {"idle", "done"}
  /\ pv.started < MaxResolves
  /\ pv' = [pv EXCEPT !.started = @ + 1,
                      !.calls[c] = Iterate(NoResolveCall, 0, pv.currentPipedIndex,
                                           NumInstances(pv.impl))]
  /\ UNCHANGED ResolveOthers

\* fetchJson returns an answer with a usable audio stream: the instance is
\* remembered and the url returned.
ResolveFound(c) ==
  /\ pv.calls[c].pc = "fetch"
  /\ pv' = [pv EXCEPT !.currentPipedIndex = WorkingInstance(pv.calls[c]),
                      !.since = pv.calls[c].instanceIndex,
                      !.calls[c] = [@ EXCEPT !.pc = "done", !.result = "url"]]
  /\ UNCHANGED ResolveOthers

\* fetchJson returns an answer without a usable audio stream, or rejects
\* (an error, invalid JSON, the 15 s timeout): the loop goes on, and after
\* the last iteration the call returns null.
ResolveFailed(c) ==
  /\ pv.calls[c].pc = "fetch"
  /\ pv' = IF pv.calls[c].i + 1 < NumInstances(pv.impl)
             THEN [pv EXCEPT !.calls[c] = Iterate(@, @.i + 1, pv.currentPipedIndex,
                                                  NumInstances(pv.impl))]
             ELSE [pv EXCEPT !.calls[c] = [@ EXCEPT !.pc = "done", !.result = "null"]]
  /\ UNCHANGED ResolveOthers

\* ----------------------------------------------------- specification

\* Nothing happens in the other parts of the program.
QuietAcquisition ==
  /\ cache = [v \in InputIds |-> [e \in ExtSet |-> "none"]]
  /\ downloadLocks = [v \in InputIds |-> 0]
  /\ lockResolved = {}
  /\ activeDownloads = [v \in InputIds |-> 0]
  /\ ipc = [c \in Calls |-> NoCall]
  /\ dl = [c \in Calls |-> NoDownload]
  /\ orphans = [v \in InputIds |-> [e \in ExtSet |-> 0]]
  /\ http = [r \in Reqs |-> NoRequest]
QuietEviction ==
  /\ enow = StartNow
  /\ dir = [f \in FileSet |-> NoFile]
  /\ sw = NoSweep
QuietRange ==
  /\ rq = [size |-> 0, range |-> NoRangeHeader]
  /\ rs = NoResponse
QuietFilter ==
  /\ fq = [host |-> NoHeader, origin |-> NoHeader]
  /\ fr = NoVerdict
QuietGate ==
  /\ srv = Construct("server", NoToken)
  /\ rateLimitStore = [ip \in Ips |-> NoEntry]
  /\ unpruned = Twin(rateLimitStore)
  /\ gnow = 0
  /\ rr = NoExchange
  /\ left = 0
QuietRelay == rl = NoRelay
QuietLife == life = NoLife
QuietStream == st = NoStream
QuietResolve == pv = NoResolve

Init ==
  /\ cache \in [InputIds -> [ExtSet -> {"none"}]]
  /\ downloadLocks = [v \in InputIds |-> 0]
  /\ lockResolved = {}
  /\ activeDownloads = [v \in InputIds |-> 0]
  /\ ipc = [c \in Calls |-> NoCall]
  /\ dl = [c \in Calls |-> NoDownload]
  /\ orphans = [v \in InputIds |-> [e \in ExtSet |-> 0]]
  /\ http = [r \in Reqs |-> NoRequest]
  /\ enow = StartNow
  /\ dir = [f \in FileSet |-> NoFile]
  /\ sw = NoSweep
  /\ rq = [size |-> 0, range |-> NoRangeHeader]
  /\ rs = NoResponse
  /\ QuietFilter /\ QuietGate /\ QuietRelay /\ QuietLife /\ QuietStream /\ QuietResolve

Next ==
  \/ \E c \in Calls, videoId \in InputIds : IpcCall(c, videoId)
  \/ \E c \in Calls : IpcWake(c)
  \/ \E c \in Calls : IpcContinue(c)
  \/ Tick
  \/ \E c \in Calls : DlStat(c)
  \/ \E c \in Calls : DlTouch(c)
  \/ \E c \in Calls : DlStatDeno(c)
  \/ \E c \in Calls : DlProcWrite(c, "data")
  \/ \E c \in Calls, content \in {"empty", "data"} : DlProcExit(c, TRUE, content)
  \/ \E c \in Calls : DlProcExit(c, FALSE, "none")
  \/ \E c \in Calls : DlTimeout(c)
  \/ \E c \in Calls : DlVerify(c)
  \/ \E c \in Calls : DlUnlink(c)
  \/ \E videoId \in InputIds, ext \in ExtSet : OrphanWrite(videoId, ext, "data")
  \/ \E videoId \in InputIds, ext \in ExtSet, ok \in BOOLEAN : OrphanExit(videoId, ext, ok)
  \/ \E r \in Reqs, videoId \in InputIds : HttpAudio(r, videoId)
  \/ \E r \in Reqs : HStat(r)
  \/ \E r \in Reqs : HTouch(r)
  \/ \E r \in Reqs : HProcWrite(r, "data")
  \/ \E r \in Reqs, content \in {"empty", "data"} : HProcExit(r, TRUE, content)
  \/ \E r \in Reqs : HProcExit(r, FALSE, "none")
  \/ \E r \in Reqs : HTimeout(r)
  \/ \E r \in Reqs : HVerify(r)
  \/ \E r \in Reqs : HUnlink(r)
  \/ \E r \in Reqs : HStream(r)
  \/ \E r \in Reqs, videoId \in InputIds : HttpStream(r, videoId)
  \/ \E r \in Reqs : HAccess(r)

Spec == Init /\ [][Next]_vars

\* The invocations of get-youtube-audio-url alone, for two different ids.  Each
\* downloader process exits, with or without a file, before the timer of its
\* attempt fires (Spec has the attempts that time out).
OtherId == <<"9","b","Z","k","p","7","q","1","9","f","0">>
LockIds == {GoodId, OtherId}

InitLock ==
  /\ cache = [v \in LockIds |-> [e \in ExtSet |-> "none"]]
  /\ downloadLocks = [v \in LockIds |-> 0]
  /\ lockResolved = {}
  /\ activeDownloads = [v \in LockIds |-> 0]
  /\ ipc = [c \in Calls |-> NoCall]
  /\ dl = [c \in Calls |-> NoDownload]
  /\ orphans = [v \in LockIds |-> [e \in ExtSet |-> 0]]
  /\ http = [r \in Reqs |-> NoRequest]
  /\ QuietEviction /\ QuietRange /\ QuietFilter /\ QuietGate /\ QuietRelay /\ QuietLife /\ QuietStream /\ QuietResolve

NextLock ==
  \/ \E c \in Calls, videoId \in LockIds : IpcCall(c, videoId)
  \/ \E c \in Calls : IpcWake(c)
  \/ \E c \in Calls : IpcContinue(c)
  \/ Tick
  \/ \E c \in Calls : DlStat(c)
  \/ \E c \in Calls : DlTouch(c)
  \/ \E c \in Calls : DlStatDeno(c)
  \/ \E c \in Calls, content \in {"empty", "data"} : DlProcExit(c, TRUE, content)
  \/ \E c \in Calls : DlProcExit(c, FALSE, "none")
  \/ \E c \in Calls : DlVerify(c)
  \/ \E c \in Calls : DlUnlink(c)

SpecLock == InitLock /\ [][NextLock]_vars

\* The same with the event loop doing its work: the wall clock advances, the
\* timer of the wait loop fires, and a continuation that is queued runs.
SpecLockLive ==
  /\ SpecLock
  /\ WF_vars(Tick)
  /\ \A c \in Calls : WF_vars(IpcWake(c)) /\ WF_vars(IpcContinue(c))

\* The invocations of get-youtube-audio-url alone, with attempts that time out
\* and downloader processes that outlive them.
NextDownload ==
  \/ \E c \in Calls, videoId \in InputIds : IpcCall(c, videoId)
  \/ \E c \in Calls : IpcWake(c)
  \/ \E c \in Calls : IpcContinue(c)
  \/ Tick
  \/ \E c \in Calls : DlStat(c)
  \/ \E c \in Calls : DlTouch(c)
  \/ \E c \in Calls : DlStatDeno(c)
  \/ \E c \in Calls : DlProcWrite(c, "data")
  \/ \E c \in Calls, content \in {"empty", "data"} : DlProcExit(c, TRUE, content)
  \/ \E c \in Calls : DlProcExit(c, FALSE, "none")
  \/ \E c \in Calls : DlTimeout(c)
  \/ \E c \in Calls : DlVerify(c)
  \/ \E c \in Calls : DlUnlink(c)
  \/ \E videoId \in InputIds, ext \in ExtSet : OrphanWrite(videoId, ext, "data")
  \/ \E videoId \in InputIds, ext \in ExtSet, ok \in BOOLEAN : OrphanExit(videoId, ext, ok)

SpecDownload == Init /\ [][NextDownload]_vars

\* The same with the event loop doing its work: the wall clock advances, the
\* timers of the wait loop and of the attempts fire, queued continuations run
\* and file-system calls complete.  A downloader left running by a timeout
\* exits in the end (it is run with --socket-timeout 30 and --retries 2); the
\* timer of an attempt fires whether or not it does, but the model starts no
\* attempt that could add a process beyond MaxOrphans.
SpecDownloadLive ==
  /\ SpecDownload
  /\ WF_vars(Tick)
  /\ \A c \in Calls :
       /\ WF_vars(IpcWake(c)) /\ WF_vars(IpcContinue(c))
       /\ WF_vars(DlStat(c)) /\ WF_vars(DlTouch(c)) /\ WF_vars(DlStatDeno(c))
       /\ WF_vars(DlTimeout(c)) /\ WF_vars(DlVerify(c)) /\ WF_vars(DlUnlink(c))
  /\ \A videoId \in InputIds, ext \in ExtSet :
       WF_vars(\E ok \in BOOLEAN : OrphanExit(videoId, ext, ok))

\* cleanupCache over a directory of up to three files, with cache hits and a
\* download going on beside it.
InitEvict ==
  /\ cache = [v \in InputIds |-> [e \in ExtSet |-> "none"]]
  /\ downloadLocks = [v \in InputIds |-> 0]
  /\ lockResolved = {}
  /\ activeDownloads = [v \in InputIds |-> 0]
  /\ ipc = [c \in Calls |-> NoCall]
  /\ dl = [c \in Calls |-> NoDownload]
  /\ orphans = [v \in InputIds |-> [e \in ExtSet |-> 0]]
  /\ http = [r \in Reqs |-> NoRequest]
  /\ enow = StartNow
  /\ dir \in [FileSet -> {NoFile} \cup [present : {TRUE}, mtime : StartMtimes,
                                        size : FileSizes]]
  /\ sw = NoSweep
  /\ rq = [size |-> 0, range |-> NoRangeHeader]
  /\ rs = NoResponse
  /\ QuietFilter /\ QuietGate /\ QuietRelay /\ QuietLife /\ QuietStream /\ QuietResolve

NextEvict ==
  \/ SweepStart
  \/ SweepReaddir
  \/ SweepReaddirFails
  \/ \E ok \in BOOLEAN : SweepStat(ok)
  \/ \E ok \in BOOLEAN : SweepAgeUnlink(ok)
  \/ \E ok \in BOOLEAN : SweepLruUnlink(ok)
  \/ \E f \in FileSet : CacheHit(f)
  \/ \E f \in FileSet, size \in FileSizes : FileAdded(f, size)
  \/ DayPasses

SpecEvict == InitEvict /\ [][NextEvict]_vars

\* cleanupCache over a directory that changes under it: files leave it and a
\* file is added to it while the run goes on.
NextSweep ==
  \/ SweepStart
  \/ SweepReaddir
  \/ SweepReaddirFails
  \/ \E ok \in BOOLEAN : SweepStat(ok)
  \/ \E ok \in BOOLEAN : SweepAgeUnlink(ok)
  \/ \E ok \in BOOLEAN : SweepLruUnlink(ok)
  \/ \E f \in FileSet : FileRemoved(f)
  \/ \E f \in FileSet, size \in FileSizes : FileAdded(f, size)

SpecSweep == InitEvict /\ [][NextSweep]_vars

\* The same with every file-system call of the run completing.
SpecSweepLive ==
  /\ SpecSweep
  /\ WF_vars(SweepReaddir \/ SweepReaddirFails)
  /\ WF_vars(\E ok \in BOOLEAN : SweepStat(ok))
  /\ WF_vars(\E ok \in BOOLEAN : SweepAgeUnlink(ok))
  /\ WF_vars(\E ok \in BOOLEAN : SweepLruUnlink(ok))

\* Every request (a file size, a Range header) answered by each of the three
\* pieces of code that serve files.
InitRange ==
  /\ cache = [v \in InputIds |-> [e \in ExtSet |-> "none"]]
  /\ downloadLocks = [v \in InputIds |-> 0]
  /\ lockResolved = {}
  /\ activeDownloads = [v \in InputIds |-> 0]
  /\ ipc = [c \in Calls |-> NoCall]
  /\ dl = [c \in Calls |-> NoDownload]
  /\ orphans = [v \in InputIds |-> [e \in ExtSet |-> 0]]
  /\ http = [r \in Reqs |-> NoRequest]
  /\ enow = StartNow
  /\ dir = [f \in FileSet |-> NoFile]
  /\ sw = NoSweep
  /\ rq \in [size : FileLens, range : RangeHeaders]
  /\ rs = NoResponse
  /\ QuietFilter /\ QuietGate /\ QuietRelay /\ QuietLife /\ QuietStream /\ QuietResolve

NextRange ==
  \/ StreamServer
  \/ StreamProd
  \/ StreamProtocol

SpecRange == InitRange /\ [][NextRange]_vars

\* Every Host header and Origin header put to the checks of each server.
InitFilter ==
  /\ QuietAcquisition /\ QuietEviction /\ QuietRange /\ QuietGate /\ QuietRelay /\ QuietLife /\ QuietStream /\ QuietResolve
  /\ fq \in [host : HostInputs, origin : OriginInputs]
  /\ fr = NoVerdict

NextFilter ==
  \/ FilterServer
  \/ FilterProd
  \/ FilterPiped

SpecFilter == InitFilter /\ [][NextFilter]_vars

\* The servers as constructed, with and without a configured token.
Servers ==
  {Construct(impl, configured) :
     impl \in {"server", "prod", "piped"}, configured \in {NoToken, ConfiguredToken}}

\* A window of the rate limiter that began at time 0 and has let count
\* requests through.
Window(count) == [count |-> count, resetTime |-> RATE_LIMIT_WINDOW_MS]

\* Requests of every kind through the middleware of a server whose rate
\* limiter is empty or has counted 99 or 100 requests of the first client in
\* the window that is going on.
InitGate ==
  /\ QuietAcquisition /\ QuietEviction /\ QuietRange /\ QuietFilter /\ QuietRelay /\ QuietLife /\ QuietStream /\ QuietResolve
  /\ srv \in Servers
  /\ \E e \in {NoEntry, Window(RATE_LIMIT_MAX_REQUESTS - 1), Window(RATE_LIMIT_MAX_REQUESTS)} :
       rateLimitStore = [ip \in Ips |-> IF ip = "192.168.1.77" THEN e ELSE NoEntry]
  /\ unpruned = Twin(rateLimitStore)
  /\ gnow = 0
  /\ rr = NoExchange
  /\ left = GateRequests

NextGate ==
  \/ \E q \in Requests : ServeServer(q)
  \/ \E q \in Requests : ServeProd(q)
  \/ \E q \in Requests : ServePiped(q)

SpecGate == InitGate /\ [][NextGate]_vars

\* The requests of one client counted from the construction of the server,
\* while the windows of the rate limiter pass and its timer fires.
InitRate ==
  /\ QuietAcquisition /\ QuietEviction /\ QuietRange /\ QuietFilter /\ QuietRelay /\ QuietLife /\ QuietStream /\ QuietResolve
  /\ srv \in Servers
  /\ rateLimitStore = [ip \in Ips |-> NoEntry]
  /\ unpruned = Twin(rateLimitStore)
  /\ gnow = 0
  /\ rr = NoExchange
  /\ left = MaxRequests

NextRate ==
  \/ \E q \in RateRequests : ServeServer(q)
  \/ \E q \in RateRequests : ServeProd(q)
  \/ \E q \in RateRequests : ServePiped(q)
  \/ RateLimitCleanup
  \/ WindowPasses

SpecRate == InitRate /\ [][NextRate]_vars

\* One request for the audio of a video through a standalone server: the
\* Piped instances answer or not, the upstream redirects, answers, sends
\* its body or fails, the client may go away.
InitRelay ==
  /\ QuietAcquisition /\ QuietEviction /\ QuietRange /\ QuietFilter /\ QuietGate /\ QuietLife /\ QuietStream /\ QuietResolve
  /\ rl = NoRelay

NextRelay ==
  \/ \E impl \in Relays, videoId \in InputIds : AudioRequest(impl, videoId)
  \/ \E found \in BOOLEAN : PipedAnswers(found)
  \/ FetchTimeout
  \/ UpstreamRedirects
  \/ \E declared \in DeclaredLengths : UpstreamResponds(declared)
  \/ UpstreamFails
  \/ \E size \in ChunkSizes : UpstreamChunk(size)
  \/ UpstreamEnds
  \/ ClientCloses
  \/ ClientClosesEarly

SpecRelay == InitRelay /\ [][NextRelay]_vars

\* The same where the timers of the program fire: the timeout of fetchJson
\* is the only one there is.  Nothing makes a Piped instance, the upstream
\* or the client act.
SpecRelayLive == SpecRelay /\ WF_vars(FetchTimeout)

\* The main process from the evaluation of main.ts to its exit: the sweeps,
\* the timer, the requests to shut down.
InitLife ==
  /\ QuietAcquisition /\ QuietEviction /\ QuietRange /\ QuietFilter /\ QuietGate /\ QuietRelay /\ QuietStream /\ QuietResolve
  /\ life = NoLife

NextLife ==
  \/ WhenReady
  \/ IntervalTick
  \/ \E kind \in {"startup", "timer"} : SweepReturns(kind)
  \/ BeforeQuit
  \/ Signal
  \/ ServerClosed
  \/ FinalSweepReturns

SpecLife == InitLife /\ [][NextLife]_vars

\* One call of streamFile, from the call to the end of the transfer.  The
\* timer of setInterval fires as long as it is set, and fs.stat returns.
InitStream ==
  /\ QuietAcquisition /\ QuietEviction /\ QuietRange /\ QuietFilter /\ QuietGate /\ QuietRelay /\ QuietLife /\ QuietResolve
  /\ st = NoStream

NextStream ==
  \/ StreamFileCall
  \/ \E outcome \in {"rejects", "unsatisfiable", "streams"} : StreamStatReturns(outcome)
  \/ \E full \in BOOLEAN : StreamData(full)
  \/ ResDrain
  \/ StreamEnd
  \/ StreamError
  \/ ResClose
  \/ ResError
  \/ TimeoutCheck

SpecStream == InitStream /\ [][NextStream]_vars

SpecStreamLive ==
  /\ SpecStream
  /\ WF_vars(TimeoutCheck)
  /\ \A outcome \in {"rejects", "unsatisfiable", "streams"} : WF_vars(StreamStatReturns(outcome))

\* The clients the model does not follow, and the requests of the model to
\* a server whose store holds their entries.
Crowd == "10.1.0.0/16"
PruneRequests == 3
PruneClients == {Request(GoodHost, ip, NoHeader, Tracks, NoCredentials) : ip \in Ips}

\* Two clients at a server whose store holds the entries of STORE_PRUNE_SIZE
\* other clients, each with one request in the window that began at time 0;
\* the second client has none or has used up its window.
InitPrune ==
  /\ QuietAcquisition /\ QuietEviction /\ QuietRange /\ QuietFilter /\ QuietRelay /\ QuietLife /\ QuietStream /\ QuietResolve
  /\ srv \in Servers
  /\ \E e \in {NoEntry, Window(RATE_LIMIT_MAX_REQUESTS)} :
       rateLimitStore = [ip \in Ips \cup {Crowd} |->
                           IF ip = Crowd
                           THEN [count |-> 1, resetTime |-> RATE_LIMIT_WINDOW_MS,
                                 n |-> STORE_PRUNE_SIZE]
                           ELSE IF ip = "192.168.1.78" THEN e ELSE NoEntry]
  /\ unpruned = Twin(rateLimitStore)
  /\ gnow = 0
  /\ rr = NoExchange
  /\ left = PruneRequests

NextPrune ==
  \/ \E q \in PruneClients : ServeServer(q)
  \/ \E q \in PruneClients : ServeProd(q)
  \/ \E q \in PruneClients : ServePiped(q)
  \/ RateLimitCleanup
  \/ WindowPasses

SpecPrune == InitPrune /\ [][NextPrune]_vars

\* The calls of getPipedAudioUrl of a standalone server, some at one time.
InitResolve ==
  /\ QuietAcquisition /\ QuietEviction /\ QuietRange /\ QuietFilter /\ QuietGate /\ QuietRelay /\ QuietLife /\ QuietStream
  /\ pv \in {[NoResolve EXCEPT !.impl = impl] : impl \in Relays}

NextResolve ==
  \/ \E c \in Resolvers : ResolveCall(c)
  \/ \E c \in Resolvers : ResolveFound(c)
  \/ \E c \in Resolvers : ResolveFailed(c)

SpecResolve == InitResolve /\ [][NextResolve]_vars

\* ------------------------------------------------------------ claims

\* The downloads (download promises) of an id that have not settled.
InFlight(videoId) ==
  {c \in Calls : dl[c].dpc \notin {"none", "done"} /\ ipc[c].id = videoId}

\* C1: overlapping invocations of get-youtube-audio-url for one id share one
\* download: at any moment at most one download of an id is in flight, also
\* after a forced lock takeover; invocations that overlap in time return the
\* same download promise and receive the same result (the same file, or null).
C1_OneDownloadSameResult ==
  /\ \A videoId \in InputIds : Cardinality(InFlight(videoId)) <= 1
  /\ \A c \in Calls : \A d \in ipc[c].joined :
       /\ (ipc[c].dl # 0 /\ ipc[d].dl # 0) => ipc[c].dl = ipc[d].dl
       /\ (ipc[c].pc = "done" /\ ipc[d].pc = "done") => ipc[c].result = ipc[d].result

\* Three overlapping invocations, one of which took the lock over by force,
\* have all received null from a download that tried every candidate.
C1_Witness ==
  /\ \A c \in 1..3 : ipc[c].pc = "done" /\ ipc[c].id = GoodId /\ ipc[c].result = "null"
  /\ \E c \in 1..3 : ipc[c].forced
  /\ \E c \in 1..3 : ipc[c].joined # {} /\ dl[ipc[c].dl].k = NumCandidates

\* C2: two requests GET /api/youtube/audio/:videoId for the same uncached id
\* that overlap in time never have the external downloader running twice: the
\* request that arrives during a download does not start a second one.
C2_HttpDownloaderOnce ==
  \A r \in Reqs : \A q \in Reqs \ {r} :
    (http[r].kind = "audio" /\ http[q].kind = "audio" /\ http[r].id = http[q].id)
      => ~(http[r].pc = "race" /\ http[q].pc = "race")

\* An id of exactly 11 characters from [A-Za-z0-9_-].
WellFormedId(videoId) ==
  /\ Len(videoId) = 11
  /\ \A i \in 1..Len(videoId) : videoId[i] \in IdChars

\* C3: an invocation of get-youtube-audio-url or a request
\* GET /api/youtube/audio/:videoId whose id is not 11 characters from
\* [A-Za-z0-9_-] is rejected at once (null / status 400) and leaves the locks,
\* the in-flight downloads, the downloader processes and the cache unchanged.
C3_InvalidIdRejected ==
  [][ /\ \A c \in Calls :
          (ipc[c].pc = "idle" /\ ipc'[c].pc # "idle" /\ ~WellFormedId(ipc'[c].id))
            => /\ ipc'[c].pc = "done"
               /\ ipc'[c].result = "null"
               /\ UNCHANGED <<cache, downloadLocks, lockResolved, activeDownloads, dl, orphans>>
      /\ \A r \in Reqs :
          (http[r].pc = "idle" /\ http'[r].pc # "idle" /\ http'[r].kind = "audio"
             /\ ~WellFormedId(http'[r].id))
            => /\ http'[r].pc = "done"
               /\ http'[r].status = 400
               /\ UNCHANGED <<cache, downloadLocks, lockResolved, activeDownloads, dl, orphans>>
    ]_vars

\* 'bad id!' has been rejected by the IPC handler and by the HTTP route while a
\* download for a valid id is in flight.
C3_Witness ==
  /\ \E c \in Calls : ipc[c].pc = "done" /\ ipc[c].id = BadId /\ ipc[c].result = "null"
  /\ \E r \in Reqs : http[r].kind = "audio" /\ http[r].id = BadId /\ http[r].status = 400
  /\ activeDownloads[GoodId] # 0
  /\ \A e \in ExtSet : cache[BadId][e] = "none"

\* No other acquire for the id of invocation c than those sharing its download,
\* and no HTTP acquire for it, has been made.
OnlyAcquireIpc(c) ==
  /\ \A d \in Calls : ipc[d].id = ipc[c].id => ipc[d].pc = "done" /\ ipc[d].dl = ipc[c].dl
  /\ \A r \in Reqs : ~(http[r].kind = "audio" /\ http[r].id = ipc[c].id)

\* No other acquire for the id of request r has been made.
OnlyAcquireHttp(r) ==
  /\ \A c \in Calls : ipc[c].id # http[r].id
  /\ \A q \in Reqs \ {r} : ~(http[q].kind = "audio" /\ http[q].id = http[r].id)

\* C4: once an acquire has reported that every download attempt failed or
\* timed out, the cache holds neither <id>.m4a nor <id>.webm, and none appears
\* as long as no other acquire for the id is made.
C4_NoFileAfterFailure ==
  /\ \A c \in Calls :
       (ipc[c].pc = "done" /\ ipc[c].result = "null" /\ WellFormedId(ipc[c].id)
          /\ OnlyAcquireIpc(c))
         => \A e \in ExtSet : cache[ipc[c].id][e] = "none"
  /\ \A r \in Reqs :
       (http[r].pc = "done" /\ http[r].kind = "audio" /\ http[r].status = 500
          /\ OnlyAcquireHttp(r))
         => \A e \in ExtSet : cache[http[r].id][e] = "none"

\* Some acquire for the id has completed and nothing works on the id any more.
AcquireCompleted(videoId) ==
  /\ \/ \E c \in Calls : ipc[c].id = videoId /\ ipc[c].pc = "done"
     \/ \E r \in Reqs : http[r].id = videoId /\ http[r].kind = "audio" /\ http[r].pc = "done"
  /\ \A c \in Calls : ipc[c].id = videoId => ipc[c].pc = "done"
  /\ \A r \in Reqs : http[r].id = videoId => http[r].pc = "done"
  /\ \A e \in ExtSet : orphans[videoId][e] = 0

\* C5: no route serves a zero-byte cache file as a cache hit, and once an
\* acquire for an id has completed no zero-byte file of the id is left under
\* either extension.
C5_NoZeroByteHit ==
  /\ \A r \in Reqs : (http[r].pc = "done" /\ http[r].hit) => http[r].served # "empty"
  /\ \A videoId \in InputIds :
       (WellFormedId(videoId) /\ AcquireCompleted(videoId))
         => \A e \in ExtSet : cache[videoId][e] # "empty"

\* The size budget in bytes and the age budget in milliseconds.
CacheBudget == MAX_CACHE_SIZE_MB * MB
AgeBudget == MAX_CACHE_AGE_DAYS * DayMs

\* The sum of the sizes of the files in the cache directory.
DirTotal ==
  LET S[n \in 0..Len(CacheFiles)] ==
        IF n = 0 THEN 0
        ELSE S[n - 1] + (IF dir[CacheFiles[n]].present THEN dir[CacheFiles[n]].size ELSE 0)
  IN S[Len(CacheFiles)]

\* The sum of the sizes the run of cleanupCache listed.
ListedTotal ==
  LET S[n \in 0..Len(sw.stats)] ==
        IF n = 0 THEN 0 ELSE S[n - 1] + sw.stats[n].size
  IN S[Len(sw.stats)]

\* The files the age phase of the run deleted.
AgeDeleted ==
  {sw.stats[n].path : n \in {k \in 1..Len(sw.stats) : sw.stats[k].deleted}}

StatMtime(f) ==
  LET n == CHOOSE k \in 1..Len(sw.stats) : sw.stats[k].path = f IN sw.stats[n].mtime
NotOlderTotal(f) ==
  LET S[n \in 0..Len(sw.stats)] ==
        IF n = 0 THEN 0
        ELSE S[n - 1] + (IF sw.stats[n].mtime >= StatMtime(f) THEN sw.stats[n].size ELSE 0)
  IN S[Len(sw.stats)]

IsBytesRange(h) ==
  \E a \in RangeTokens, b \in RangeTokens : h = BytesEq \o a \o Dash \o b
FirstBound(h) ==
  CHOOSE a \in RangeTokens : \E b \in RangeTokens : h = BytesEq \o a \o Dash \o b
LastBound(h) ==
  CHOOSE b \in RangeTokens : \E a \in RangeTokens : h = BytesEq \o a \o Dash \o b

\* The bound t is a non-negative integer in decimal digits, and its value.
IsNumber(t) == t # << >> /\ \A i \in 1..Len(t) : t[i] \in Digit
Value(t) == DigitsValue(t, 1, Len(t))

\* The request is bytes=start-end with 0 <= start <= end < size.
ValidRange ==
  /\ IsBytesRange(rq.range)
  /\ IsNumber(FirstBound(rq.range)) /\ IsNumber(LastBound(rq.range))
  /\ Value(FirstBound(rq.range)) <= Value(LastBound(rq.range))
  /\ Value(LastBound(rq.range)) < rq.size

\* The response is 206 with Content-Range `bytes first-last/size`,
\* Content-Length last-first+1 and the bytes first..last of the file.
PartialContent(first, last) ==
  /\ rs.status = 206
  /\ rs.contentRange = ContentRange(Num(first), Num(last), rq.size)
  /\ rs.contentLength = ContentLength(Num(last - first + 1))
  /\ rs.body = FileBytes(first, last)

\* C9 (as stated): a request bytes=start-end with 0 <= start <= end < S for a
\* file of size S is answered 206 with Content-Range `bytes start-end/S`,
\* Content-Length end-start+1 and exactly the bytes start..end of the file.
C9_RangeServedExactly ==
  (rs.by # "none" /\ ValidRange)
    => PartialContent(Value(FirstBound(rq.range)), Value(LastBound(rq.range)))

\* The last byte served for the range start..end: the protocol handler of
\* main.ts serves at most 10 MiB of a range.
ServedLast(start, end) ==
  IF rs.by = "protocol" /\ end - start + 1 > 10 * MB THEN start + 10 * MB - 1 ELSE end

\* C9 (amended): a request bytes=start-end with 0 <= start <= end < S is
\* answered 206 with Content-Range `bytes start-last/S`, Content-Length
\* last-start+1 and exactly the bytes start..last, where last = end, except
\* that the local-audio protocol handler answers a range longer than 10 MiB
\* with its first 10 MiB (last = start + 10 MiB - 1).
C9_RangeServedUpToChunk ==
  (rs.by # "none" /\ ValidRange)
    => PartialContent(Value(FirstBound(rq.range)),
                      ServedLast(Value(FirstBound(rq.range)), Value(LastBound(rq.range))))

\* The protocol handler has answered bytes=0-12582911 for a file of 12 MiB
\* with the first 10 MiB.
C9_Witness ==
  /\ rs.by = "protocol" /\ ValidRange
  /\ rq.size = 12 * MB
  /\ Value(FirstBound(rq.range)) = 0 /\ Value(LastBound(rq.range)) = 12 * MB - 1
  /\ rs.status = 206
  /\ rs.contentRange.last = Num(10 * MB - 1)

\* The request is bytes=<a>-<b> with both bounds given, and a bound is not a
\* non-negative integer, or the end is >= the size, or the start is greater
\* than the end.
BadRange ==
  /\ IsBytesRange(rq.range)
  /\ FirstBound(rq.range) # << >> /\ LastBound(rq.range) # << >>
  /\ \/ ~IsNumber(FirstBound(rq.range))
     \/ ~IsNumber(LastBound(rq.range))
     \/ Value(LastBound(rq.range)) >= rq.size
     \/ Value(FirstBound(rq.range)) > Value(LastBound(rq.range))

\* C10: a Range request whose end is >= the file size, whose start is greater
\* than its end, or whose bounds are not non-negative integers is answered
\* 416 with Content-Range `bytes */size` and an empty body, without file bytes.
C10_BadRangeRejected ==
  (rs.by # "none" /\ BadRange)
    => /\ rs.status = 416
       /\ rs.contentRange = Unsatisfied(rq.size)
       /\ rs.body = Body("empty")

\* The request reached streamFile of one of the two HTTP servers.
ByServer == rs.by \in {"server", "prod"}

\* The request is bytes=-<E> (no start) or bytes=<S>- (no end) with a
\* non-negative integer as the bound that is given.
OpenStart ==
  /\ IsBytesRange(rq.range)
  /\ FirstBound(rq.range) = << >> /\ IsNumber(LastBound(rq.range))
OpenEnd ==
  /\ IsBytesRange(rq.range)
  /\ IsNumber(FirstBound(rq.range)) /\ LastBound(rq.range) = << >>

\* C11: streamFile reads an empty start as 0 and an empty end as size-1:
\* bytes=-E is served as the range 0..E and bytes=S- as the range S..size-1
\* when that range lies in the file, and is answered 416 when it does not.
C11_EmptyBoundsDefault ==
  /\ (ByServer /\ OpenStart) =>
       IF Value(LastBound(rq.range)) < rq.size
       THEN PartialContent(0, Value(LastBound(rq.range)))
       ELSE rs.status = 416
  /\ (ByServer /\ OpenEnd) =>
       IF Value(FirstBound(rq.range)) < rq.size
       THEN PartialContent(Value(FirstBound(rq.range)), rq.size - 1)
       ELSE rs.status = 416

\* The order of the checks as the specification gives it.
CheckOrder == <<"host", "rate", "cors", "auth">>

IsPrefix(s, t) == Len(s) <= Len(t) /\ SubSeq(t, 1, Len(s)) = s

\* A request has gone through the middleware.
Served == rr.stages # << >>

\* What one check alone answers to the last request, the rate limiter as it
\* was when the request arrived.
Alone(stage) ==
  RunStage(srv.impl, stage, rr.q, [ip \in Ips |-> rr.before], gnow, srv.authToken)
FailingChecks == {k \in DOMAIN CheckOrder : Alone(CheckOrder[k]).status # 0}
Earliest(S) == CHOOSE k \in S : \A j \in S : k <= j

\* C12: the checks run in the order Host validation, rate limiting, CORS,
\* authentication; a request that fails one or more of them is answered by
\* the earliest check it fails, with that check's status, and no later check
\* runs; a request that Host validation rejects leaves the counter of the
\* rate limiter as it was.
C12_ChecksInOrder ==
  Served =>
    /\ IsPrefix(rr.stages, CheckOrder)
    /\ IF FailingChecks = {}
       THEN rr.handler /\ rr.stages = CheckOrder
       ELSE /\ ~rr.handler
            /\ rr.stages = SubSeq(CheckOrder, 1, Earliest(FailingChecks))
            /\ rr.status = Alone(CheckOrder[Earliest(FailingChecks)]).status
    /\ Alone("host").status # 0 => rateLimitStore[rr.q.ip] = rr.before

\* A request that fails all four checks was answered by Host validation
\* alone, with 403, and the full counter of its client is as it was.
C12_Witness ==
  /\ Served
  /\ FailingChecks = DOMAIN CheckOrder
  /\ rr.stages = <<"host">>
  /\ rr.status = 403
  /\ rr.before.count = RATE_LIMIT_MAX_REQUESTS
  /\ rateLimitStore[rr.q.ip] = rr.before

\* The Host values the specification lets through: localhost, 127.0.0.1,
\* ::1 (bare, or in brackets with an optional port) and the private IPv4
\* addresses, each with an optional port.
NamedWithPort(s, name) == OptionalPortAtEnd(s, Lit(s, 1, name))
PrivateIPv4WithPort(s) ==
  LET e1 == Digits(s, 1, 3)
      e2 == Digits(s, Lit(s, e1, <<".">>), 3)
      e3 == Digits(s, Lit(s, e2, <<".">>), 3)
      e4 == Digits(s, Lit(s, e3, <<".">>), 3)
      v1 == DigitsValue(s, 1, e1 - 1)
      v2 == DigitsValue(s, e1 + 1, e2 - 1)
      v3 == DigitsValue(s, e2 + 1, e3 - 1)
      v4 == DigitsValue(s, e3 + 1, e4 - 1)
  IN /\ e4 # 0
     /\ v1 <= 255 /\ v2 <= 255 /\ v3 <= 255 /\ v4 <= 255
     /\ \/ v1 = 10
        \/ v1 = 172 /\ v2 >= 16 /\ v2 <= 31
        \/ v1 = 192 /\ v2 = 168
     /\ OptionalPortAtEnd(s, e4)
LocalHostValue(host) ==
  /\ host # NoHeader
  /\ LET s == toLowerCase(host) IN
     \/ s = <<":", ":", "1">>
     \/ NamedWithPort(s, <<"[", ":", ":", "1", "]">>)
     \/ NamedWithPort(s, <<"l", "o", "c", "a", "l", "h", "o", "s", "t">>)
     \/ NamedWithPort(s, <<"1", "2", "7", ".", "0", ".", "0", ".", "1">>)
     \/ PrivateIPv4WithPort(s)

HostChecked == fr.by \in {"server", "prod"}

\* C13: Host validation lets a request through if and only if its Host
\* header names localhost, a loopback address or a private IPv4 address;
\* every other Host value is answered 403 and goes no further.
C13_OnlyLocalHosts ==
  HostChecked =>
    /\ fr.host = 0 <=> LocalHostValue(fq.host)
    /\ (fq.host # NoHeader /\ ~LocalHostValue(fq.host)) => fr.host = 403

\* The requests the client has sent, all of them at time 0, in the window
\* its first request began.
SentAtZero == IF gnow = 0 THEN MaxRequests - left ELSE 0

\* C14: of the requests of one client inside one window of the rate limiter
\* the first 100 pass the rate limiter, and the 101st is answered 429 with a
\* Retry-After header of a positive value.
C14_HundredPassThenLimited ==
  (Served /\ SentAtZero > 0) =>
    /\ SentAtZero <= RATE_LIMIT_MAX_REQUESTS => rr.status # 429
    /\ SentAtZero = RATE_LIMIT_MAX_REQUESTS + 1 => rr.status = 429 /\ rr.retryAfter > 0

\* The origins the specification allows: none, or http(s)://host with an
\* optional port, the host being localhost, a loopback address or a private
\* IPv4 address.
LocalOrigin(origin) ==
  \/ origin = NoHeader
  \/ /\ HttpScheme(origin) # 0
     /\ LET host == SubSeq(origin, HttpScheme(origin), Len(origin)) IN
        \/ NamedWithPort(host, <<"l", "o", "c", "a", "l", "h", "o", "s", "t">>)
        \/ NamedWithPort(host, <<"1", "2", "7", ".", "0", ".", "0", ".", "1">>)
        \/ NamedWithPort(host, <<"[", ":", ":", "1", "]">>)
        \/ PrivateIPv4WithPort(host)

\* C15: CORS lets a request through if and only if it carries no Origin
\* header or a local origin; every other origin, such as
\* https://attacker.test or one that has localhost or a private address as a
\* part of a longer host name, is answered 403.
C15_OnlyLocalOrigins ==
  HostChecked =>
    /\ fr.cors = 0 <=> LocalOrigin(fq.origin)
    /\ ~LocalOrigin(fq.origin) => fr.cors = 403

\* The routes under /api that need no token: the health check and GET search.
ExemptRoute(q) ==
  \/ q.path = <<"/", "a", "p", "i", "/", "h", "e", "a", "l", "t", "h">>
  \/ q.path = <<"/", "a", "p", "i", "/", "y", "o", "u", "t", "u", "b", "e", "/", "s", "e", "a", "r", "c", "h">> /\ q.method = "GET"
Protected(q) == UnderApi(q.path) /\ ~ExemptRoute(q)

\* One of the headers X-Auth-Token and Authorization holds the token of the
\* server, bare or after the word Bearer.
CarriesToken(q, token) ==
  \E header \in {q.xAuthToken, q.authorization} : header \in {token, Bearer(token)}

\* The last request went through the middleware of server.ts or of the
\* standalone server and was not answered before authentication.
AuthReached == Served /\ srv.impl \in {"server", "piped"} /\ rr.stages = CheckOrder

\* C16: a request to a route under /api that is not exempt reaches its
\* handler only if the token of X-Auth-Token or of Authorization: Bearer is
\* the token of the server; with no token or another one it is answered 401
\* and the handler does not run.
C16_HandlerNeedsToken ==
  (AuthReached /\ Protected(rr.q)) =>
    /\ rr.handler => CarriesToken(rr.q, srv.authToken)
    /\ ~CarriesToken(rr.q, srv.authToken) => rr.status = 401 /\ ~rr.handler

\* A request to a route that is not exempt reached its handler with the
\* generated token of the server in Authorization: Bearer.
C16_Witness ==
  /\ AuthReached /\ Protected(rr.q)
  /\ rr.handler
  /\ rr.q.xAuthToken = NoHeader
  /\ rr.q.authorization = Bearer(srv.authToken)
  /\ srv.authToken = generateAuthToken

\* The last request passed the checks before authentication.
PastCors == Served /\ rr.stages = CheckOrder

\* C17: a server constructed without a configured token has generated one,
\* and a request to a route that is not exempt that does not carry the
\* generated token is answered 401: authentication is never off.
C17_TokenGeneratedAndEnforced ==
  (PastCors /\ srv.configured = NoToken /\ Protected(rr.q)) =>
    /\ srv.authToken # NoToken
    /\ ~CarriesToken(rr.q, srv.authToken) => rr.status = 401 /\ ~rr.handler

\* A relay is going on or over.
Relaying == rl.impl \in Relays

\* C18: a relay follows at most 5 redirects: it issues at most 6 requests to
\* the upstream whatever the chain of redirects, and once the upstream has
\* answered a sixth redirect the response is 508 and no request follows.
C18_RedirectsBounded ==
  Relaying =>
    /\ rl.requests <= MAX_REDIRECT_DEPTH + 1
    /\ rl.redirects > MAX_REDIRECT_DEPTH =>
         /\ rl.status = 508
         /\ rl.pc = "done"
         /\ rl.requests = MAX_REDIRECT_DEPTH + 1

\* The relay of the standalone server, which has the size cap.
Capped == rl.impl = "piped"

\* C19: the bytes a relay delivers to the client never exceed MAX_PROXY_SIZE;
\* an upstream response that declares a longer body is answered 413 with no
\* byte relayed, an upstream that sends more than the cap without declaring
\* it is cut off, and the upstream connection is destroyed in both cases.
C19_RelayCapped ==
  Capped =>
    /\ rl.delivered <= MAX_PROXY_SIZE
    /\ rl.declared > MAX_PROXY_SIZE =>
         rl.status = 413 /\ rl.delivered = 0 /\ rl.upstream = "destroyed"
    /\ rl.streamedBytes > MAX_PROXY_SIZE =>
         rl.ended /\ rl.pc = "done" /\ rl.upstream = "destroyed"

\* An upstream that declared no length has sent more than the cap: the
\* chunks before the one that crossed the cap were delivered, that one was
\* not.
C19_Witness ==
  /\ Capped
  /\ rl.declared = 0
  /\ rl.streamedBytes > MAX_PROXY_SIZE
  /\ rl.delivered > 0 /\ rl.delivered < rl.streamedBytes
  /\ rl.upstream = "destroyed"

\* C20: every request to the audio endpoint comes to a final outcome (an
\* error status with a JSON body, a stream that ends, a terminated
\* connection), also when a Piped instance or the upstream never answers: no
\* request is pending for ever.
C20_EveryRequestEnds == (rl.pc # "idle") ~> (rl.pc = "done")

NoCallInProgress == \A c \in Calls : ipc[c].pc \in {"idle", "done"}

\* C22: an invocation of get-youtube-audio-url that has settled (a file, null
\* after every attempt failed, or null for a bad id) holds no lock;
\* activeDownloads has an entry for an id exactly while a download of the id
\* has not settled; and when no invocation is in progress, downloadLocks and
\* activeDownloads are both empty.
C22_NothingLeftBehind ==
  /\ \A c \in Calls :
       ipc[c].pc = "done" => \A videoId \in InputIds : downloadLocks[videoId] # c
  /\ \A videoId \in InputIds :
       activeDownloads[videoId] # 0 <=> InFlight(videoId) # {}
  /\ NoCallInProgress =>
       \A videoId \in InputIds :
         downloadLocks[videoId] = 0 /\ activeDownloads[videoId] = 0

\* Three invocations for one id have settled, one with a lock it took over by
\* force and one after waiting for the lock, the download having tried every
\* candidate; nothing is left in the two maps.
C22_Witness ==
  /\ NoCallInProgress
  /\ \A c \in Calls : ipc[c].pc = "done" /\ ipc[c].id = GoodId
  /\ \E c \in Calls : ipc[c].forced
  /\ \E c \in Calls : dl[c].dpc = "done" /\ dl[c].k = NumCandidates
  /\ downloadLocks[GoodId] = 0 /\ activeDownloads[GoodId] = 0

C24_KeyedPerId ==
  [][ \A c \in Calls :
        /\ (/\ ipc[c].pc = "idle" /\ ipc'[c].pc # "idle"
            /\ isValidVideoId(ipc'[c].id)
            /\ downloadLocks[ipc'[c].id] = 0)
             => ipc'[c].pc = "gotLock"
        /\ (/\ ipc[c].pc = "waitLock"
            /\ ipc'[c] # ipc[c] /\ ipc'[c].waited <= ipc[c].waited
            /\ downloadLocks[ipc[c].id] = 0)
             => ipc'[c].pc = "gotLock"
        /\ ipc'[c].pc = "waitLock"
             => /\ ipc'[c].waitOn # 0
                /\ ipc'[ipc'[c].waitOn].id = ipc'[c].id
        /\ (/\ ipc[c].pc = "gotLock" /\ ipc'[c].pc # "gotLock"
            /\ activeDownloads[ipc[c].id] = 0)
             => /\ ipc'[c].dl = c
                /\ dl'[c].dpc = "stat"
                /\ activeDownloads'[ipc[c].id] = c ]_vars

\* The downloaders of two different ids run at the same time, the later
\* invocation having found no invocation for its own id in progress.
C24_Witness ==
  /\ \E c \in Calls : dl[c].dpc = "race" /\ ipc[c].id = GoodId
  /\ \E c \in Calls : dl[c].dpc = "race" /\ ipc[c].id = OtherId
  /\ \E c \in Calls : ipc[c].joined = {} /\ ipc[c].pc = "await" /\ c > 1

\* C25: a cache lookup of get-youtube-audio-url or of
\* GET /api/youtube/audio/:videoId that finds a non-empty file of the id
\* (<id>.m4a is looked up first, <id>.webm only after <id>.m4a missed) takes
\* that file: the handler returns it, the route hands it to streamFile, and
\* the acquire starts no downloader.  The downloader is started only after
\* both lookups missed.
C25_HitSkipsDownload ==
  [][ /\ \A c \in Calls :
           /\ (/\ dl[c].dpc = "stat" /\ dl'[c] # dl[c]
               /\ cache[ipc[c].id][dl[c].ext] = "data")
                => dl'[c].dpc = "touch" /\ dl'[c].ext = dl[c].ext /\ dl'[c].k = 0
           /\ (dl[c].dpc = "touch" /\ dl'[c] # dl[c])
                => /\ dl'[c].dpc = "done" /\ dl'[c].ext = dl[c].ext /\ dl'[c].k = 0
                   /\ \A d \in Calls :
                        (ipc[d].pc = "await" /\ ipc[d].dl = c)
                          => ipc'[d].pc = "done" /\ ipc'[d].result = dl[c].ext
           /\ (dl'[c].dpc = "stat" /\ dl'[c].ext = "webm" /\ dl'[c] # dl[c])
                => /\ dl[c].dpc = "stat" /\ dl[c].ext = "m4a"
                   /\ cache[ipc[c].id]["m4a"] # "data"
           /\ (dl'[c].k > 0 /\ dl[c].k = 0)
                => /\ dl[c].dpc = "statDeno"
                   /\ dl'[c].dpc = "race"
           /\ (dl'[c].dpc = "statDeno" /\ dl'[c] # dl[c])
                => /\ dl[c].dpc = "stat" /\ dl[c].ext = "webm"
                   /\ cache[ipc[c].id]["webm"] # "data"
      /\ \A r \in Reqs :
           /\ (/\ http[r].pc = "stat" /\ http'[r] # http[r]
               /\ cache[http[r].id][http[r].ext] = "data")
                => http'[r].pc = "touch" /\ http'[r].ext = http[r].ext
           /\ (http[r].pc = "touch" /\ http'[r] # http[r])
                => /\ http'[r].pc = "stream" /\ http'[r].ext = http[r].ext
                   /\ http'[r].hit
           /\ (http'[r].pc = "stat" /\ http'[r].ext = "webm" /\ http'[r] # http[r])
                => /\ http[r].pc = "stat" /\ http[r].ext = "m4a"
                   /\ cache[http[r].id]["m4a"] # "data"
           /\ (http'[r].pc = "race" /\ http[r].pc # "race")
                => /\ http[r].pc = "stat" /\ http[r].ext = "webm"
                   /\ cache[http[r].id]["webm"] # "data"
           /\ (http[r].hit /\ http[r].kind = "audio")
                => http'[r].pc \in {"stream", "done"} ]_vars

\* A download has produced a file; an invocation made after it settled and a
\* request to the route have each found that file and taken it without a
\* downloader of their own.
C25_Witness ==
  \E c \in Calls : \E d \in Calls \ {c} : \E r \in Reqs :
    /\ dl[c].dpc = "done" /\ dl[c].k > 0 /\ ipc[c].result \in ExtSet
    /\ ipc[d].id = ipc[c].id /\ ipc[d].dl = d
    /\ dl[d].dpc = "done" /\ dl[d].k = 0
    /\ ipc[d].pc = "done" /\ ipc[d].result = ipc[c].result
    /\ http[r].kind = "audio" /\ http[r].id = ipc[c].id
    /\ http[r].pc = "done" /\ http[r].hit /\ http[r].status = 200

\* The (format, cookie browser) pairs in the order of the claim.
AttemptOrder ==
  << <<"140", "none">>, <<"bestaudio[ext=m4a]", "none">>, <<"bestaudio", "none">>,
     <<"140", "firefox">>, <<"bestaudio[ext=m4a]", "firefox">>, <<"bestaudio", "firefox">>,
     <<"140", "chrome">>, <<"bestaudio[ext=m4a]", "chrome">>, <<"bestaudio", "chrome">>,
     <<"140", "edge">>, <<"bestaudio[ext=m4a]", "edge">>, <<"bestaudio", "edge">>,
     <<"140", "brave">>, <<"bestaudio[ext=m4a]", "brave">>, <<"bestaudio", "brave">>,
     <<"140", "opera">>, <<"bestaudio[ext=m4a]", "opera">>, <<"bestaudio", "opera">>,
     <<"140", "chromium">>, <<"bestaudio[ext=m4a]", "chromium">>, <<"bestaudio", "chromium">> >>

\* The attempts a download has begun are the first dl[c].k of that order.
AttemptsInOrder(c) ==
  /\ dl[c].k <= Len(AttemptOrder)
  /\ \A k \in 1..dl[c].k :
       <<Candidate(k).format, Candidate(k).browser>> = AttemptOrder[k]

\* C26: a download of get-youtube-audio-url tries its candidates one after the
\* other in the order 140, bestaudio[ext=m4a], bestaudio without cookies and
\* then the same for each browser of the list: an attempt begins only when the
\* one before it has failed and its output has been unlinked; the attempt
\* whose output is verified non-empty is the last, and its file is the
\* result; there are at most 21 attempts; null is reported only after the
\* twenty-first has failed; and every download settles.
C26_AttemptsInOrderAndEnd ==
  /\ [](\A c \in Calls :
          /\ AttemptsInOrder(c)
          /\ (dl[c].dpc = "done" /\ ipc[c].result = "null") => dl[c].k = 21)
  /\ [][ \A c \in Calls :
           /\ dl'[c].k # dl[c].k
                => /\ dl'[c].k = dl[c].k + 1
                   /\ dl'[c].dpc = "race"
                   /\ dl[c].dpc = IF dl[c].k = 0 THEN "statDeno" ELSE "unlink"
           /\ (/\ dl[c].dpc = "verify" /\ dl'[c] # dl[c]
               /\ cache[ipc[c].id][Output(c)] = "data")
                => /\ dl'[c].dpc = "done" /\ dl'[c].k = dl[c].k
                   /\ ipc'[c].result = Output(c)
           /\ (dl[c].dpc = "race" /\ dl'[c] # dl[c])
                => dl'[c].dpc \in {"verify", "unlink"} /\ dl'[c].k = dl[c].k
           /\ dl[c].dpc = "done" => dl'[c] = dl[c] ]_vars
  /\ \A c \in Calls : (dl[c].dpc \notin {"none", "done"}) ~> (dl[c].dpc = "done")

\* One download has reported failure after 21 attempts; another has stopped
\* at an attempt with cookies that produced a file.
C26_Witness ==
  /\ \E c \in Calls :
       /\ dl[c].dpc = "done" /\ dl[c].k = 21 /\ ipc[c].result = "null"
  /\ \E c \in Calls :
       /\ dl[c].dpc = "done" /\ dl[c].k \in 4..20 /\ ipc[c].result \in ExtSet

\* C27: every cache hit, through get-youtube-audio-url, through
\* GET /api/youtube/audio/:videoId or through GET /api/stream/:trackId with a
\* youtube: id, has set the mtime of the file it hit before the file is
\* handed on (returned to the caller, passed to streamFile).
C27_HitTouchesFile ==
  /\ \A c \in Calls :
       (dl[c].dpc = "done" /\ dl[c].k = 0) => dl[c].touched
  /\ \A r \in Reqs :
       (http[r].hit /\ http[r].pc \in {"stream", "done"}) => http[r].touched

\* The entries of fileStats the size phase has tried to unlink so far, the one
\* whose unlink is awaited included.
Tried == {sw.queue[n].path : n \in 1..sw.i}

\* C28: the size phase of cleanupCache goes through the files in ascending
\* order of the mtime it listed and stops as soon as its running total is
\* within the budget: it awaits an unlink only while the total exceeds the
\* budget, every file it listed, did not delete for its age and found
\* strictly older than the one it is unlinking has been tried before, and a
\* run whose total is within the budget after the age phase deletes nothing
\* more.
C28_OldestFirstUntilWithinBudget ==
  /\ [](sw.pc = "size" =>
          /\ sw.totalSize > CacheBudget
          /\ \A j \in 1..Len(sw.queue) : \A k \in j..Len(sw.queue) :
               sw.queue[j].mtime <= sw.queue[k].mtime
          /\ \A n \in 1..Len(sw.stats) :
               (~sw.stats[n].deleted /\ sw.stats[n].mtime < sw.queue[sw.i].mtime)
                 => sw.stats[n].path \in Tried)
  /\ [][ /\ sw'.lruDeleted # sw.lruDeleted
              => /\ sw.pc = "size"
                 /\ sw'.lruDeleted = sw.lruDeleted \cup {sw.queue[sw.i].path}
         /\ (sw.pc = "size" /\ sw'.pc = "size")
              => /\ sw'.queue = sw.queue
                 /\ sw'.i \in {sw.i, sw.i + 1}
                 /\ sw'.i = sw.i + 1 => sw'.totalSize > CacheBudget
         /\ (sw.pc = "size" /\ sw'.totalSize <= CacheBudget)
              => sw'.pc = "done"
         /\ (sw.pc \in {"readdir", "stat", "age"} /\ sw'.pc = "done")
              => sw'.totalSize <= CacheBudget \/ NotDeleted(sw'.stats) = << >> ]_vars

\* A run has failed to unlink the oldest file it listed, deleted the next in
\* age and stopped within the budget, leaving the youngest.
C28_Witness ==
  /\ sw.pc = "done" /\ sw.failed
  /\ Cardinality(sw.lruDeleted) = 1
  /\ sw.totalSize <= CacheBudget
  /\ \E n \in 1..Len(sw.stats) :
       /\ sw.stats[n].path \notin sw.lruDeleted /\ ~sw.stats[n].deleted
       /\ \A m \in 1..Len(sw.stats) :
            sw.stats[m].path \in sw.lruDeleted => sw.stats[m].mtime > sw.stats[n].mtime
  /\ \E n \in 1..Len(sw.stats) :
       /\ sw.stats[n].path \notin sw.lruDeleted /\ ~sw.stats[n].deleted
       /\ \A m \in 1..Len(sw.stats) :
            sw.stats[m].path \in sw.lruDeleted => sw.stats[m].mtime < sw.stats[n].mtime

\* The paths the run holds in fileStats.
StatPaths == {sw.stats[n].path : n \in 1..Len(sw.stats)}

\* C29: a run of cleanupCache always comes to its end.  A stat that fails
\* leaves the file out and the run goes on to the next name of the listing,
\* so that every name of the listing has had its stat; an unlink that fails
\* leaves the file counted in the running total and not marked deleted, and
\* the run goes on: the age loop ends only when every listed file older than
\* the cutoff has had its unlink.  A file added after the listing is never
\* looked at.
C29_SweepCompletes ==
  /\ (sw.pc \notin {"idle", "done"}) ~> (sw.pc = "done")
  /\ [](StatPaths \subseteq FileSet)
  /\ [][ /\ (sw.pc = "stat" /\ sw'.pc = "stat")
              => /\ sw'.files = sw.files
                 /\ sw'.i \in {sw.i, sw.i + 1}
         /\ (sw.pc = "stat" /\ (sw'.pc # "stat" \/ sw'.i # sw.i))
              => /\ sw'.pc = "stat" \/ sw.i = Len(sw.files)
                 /\ \/ /\ sw'.stats = sw.stats
                       /\ sw'.totalSize = sw.totalSize
                    \/ /\ Len(sw'.stats) = Len(sw.stats) + 1
                       /\ sw'.stats[Len(sw'.stats)].path = sw.files[sw.i]
                       /\ sw'.totalSize = sw.totalSize + sw'.stats[Len(sw'.stats)].size
         /\ (sw.pc = "age" /\ (sw'.pc # "age" \/ sw'.i # sw.i))
              => /\ sw'.totalSize =
                      IF sw'.stats[sw.i].deleted
                      THEN sw.totalSize - sw.stats[sw.i].size ELSE sw.totalSize
                 /\ sw'.stats[sw.i].deleted => ~dir'[sw.stats[sw.i].path].present
                 /\ \A n \in (sw.i + 1)..Len(sw.stats) :
                      sw.stats[n].mtime < sw.cutoff
                        => sw'.pc = "age" /\ sw'.i <= n
         /\ (sw.pc = "size" /\ (sw'.pc # "size" \/ sw'.i # sw.i))
              => /\ sw'.totalSize =
                      IF sw.queue[sw.i].path \in sw'.lruDeleted
                      THEN sw.totalSize - sw.queue[sw.i].size ELSE sw.totalSize
                 /\ sw'.pc = "size"
                      \/ sw.i = Len(sw.queue) \/ sw'.totalSize <= CacheBudget
         /\ sw.pc = "done" => sw'.pc = "done" ]_vars

\* A run has come to its end over a directory in which the stat of one file
\* failed, the unlink of an old file failed because the file had gone, and an
\* old file later in fileStats was deleted all the same.
C29_Witness ==
  /\ sw.pc = "done" /\ ~sw.added
  /\ \E f \in FileSet : dir[f].present /\ f \notin StatPaths
  /\ \E n \in 1..Len(sw.stats) : \E m \in (n + 1)..Len(sw.stats) :
       /\ sw.stats[n].mtime < sw.cutoff /\ ~sw.stats[n].deleted
       /\ ~dir[sw.stats[n].path].present
       /\ sw.stats[n].path \notin sw.lruDeleted
       /\ sw.stats[m].deleted

\* C30: a sweep runs at startup and on every tick of the timer; once
\* shutdown has begun the timer is cancelled and no sweep of the timer
\* starts; the final sweep runs once; and the process is gone only after the
\* final sweep has returned, however many times shutdown was requested.
C30_ExitAfterFinalSweep ==
  /\ life.startup \in {"running", "done"}
  /\ life.periodic <= life.ticks
  /\ isQuitting => ~life.cacheCleanupInterval /\ life.lateSweeps = 0
  /\ life.finals = (IF life.gs \in {"sweeping", "done"} THEN 1 ELSE 0)
  /\ life.exited # "no" => life.final = "done"

\* The read stream is open, or its timer is set.
StreamAlive == st.stream \in {"flowing", "paused"} \/ st.timeoutCheck = "set"

\* C31: in each way the transfer of a read stream opened by streamFile can
\* end (end of file, read error, client disconnect, response error,
\* inactivity timeout) the handler of that ending leaves the stream ended or
\* destroyed and the timer cleared; and no stream or timer stays alive once
\* the response has closed, nor once a stream has been opened.
C31_StreamCleanedUp ==
  /\ [](st.how # {} => ~StreamAlive)
  /\ [][st'.how # st.how => ~StreamAlive']_vars
  /\ (st.closed /\ st.pc = "open") ~> ~StreamAlive
  /\ (st.pc = "open") ~> ~StreamAlive

\* The client went away while fs.stat was awaited, the stream was opened
\* all the same and paused on its first write, and the inactivity check has
\* destroyed it and cleared the timer.
C31_Witness ==
  /\ st.closed /\ st.how = {"timeout"}
  /\ st.stream = "destroyed" /\ st.timeoutCheck = "cleared"
  /\ st.reads = 1

\* C32: per client IP, a request that finds no window or arrives with
\* now > resetTime passes the rate limiter and leaves count = 1 and
\* resetTime = now + RATE_LIMIT_WINDOW_MS; a request inside a window is
\* refused exactly when the window has let RATE_LIMIT_MAX_REQUESTS requests
\* through, and no request inside a window, refused or not, moves resetTime:
\* the first request after the window has expired is accepted whatever was
\* sent before.
C32_WindowCountsAndExpires ==
  [][ (left' = left - 1 /\ \E k \in 1..Len(rr'.stages) : rr'.stages[k] = "rate")
        => LET ip == rr'.q.ip
               old == rateLimitStore[ip]
               new == rateLimitStore'[ip]
           IN IF old = NoEntry \/ gnow > old.resetTime
              THEN /\ rr'.status # 429
                   /\ new = [count |-> 1, resetTime |-> gnow + RATE_LIMIT_WINDOW_MS]
              ELSE /\ new # NoEntry /\ new.resetTime = old.resetTime
                   /\ rr'.status = 429 <=> old.count >= RATE_LIMIT_MAX_REQUESTS
                   /\ \A other \in Ips \ {ip} : rateLimitStore'[other] = rateLimitStore[other] ]_vars

\* A client has sent 101 requests in the window that began at 0, the last of
\* them was refused, and its request after the window expired has been
\* accepted and has begun a new window.
C32_Witness ==
  /\ left = 0 /\ gnow = 2 * RATE_LIMIT_WINDOW_MS
  /\ rr.status # 429 /\ Served
  /\ rateLimitStore[rr.q.ip] = [count |-> 1, resetTime |-> 3 * RATE_LIMIT_WINDOW_MS]

\* The entries that differ between the store and its unpruned twin.
Pruned == {ip \in DOMAIN rateLimitStore : rateLimitStore[ip] # unpruned.store[ip]}

\* C33: the limiter with its pruning, by the timer or by the size of the
\* store, refuses exactly the requests that the same limiter refuses on a
\* store that is never pruned; what the pruning has removed are entries
\* whose window has expired.
C33_PruningChangesNoAnswer ==
  /\ (Served /\ Counted(srv.impl, rr.q, rr.stages)) => (rr.status = 429 <=> unpruned.status = 429)
  /\ \A ip \in Pruned :
       /\ rateLimitStore[ip] = NoEntry
       /\ gnow > unpruned.store[ip].resetTime

\* The store of the production server held more than STORE_PRUNE_SIZE
\* entries, and the request of one client, let through, has pruned the
\* entries of the other clients and the used-up window of the second client,
\* all of them expired.
C33_Witness ==
  /\ srv.impl = "prod"
  /\ Pruned = {Crowd, "192.168.1.78"}
  /\ unpruned.store["192.168.1.78"].count = RATE_LIMIT_MAX_REQUESTS
  /\ rr.q.ip = "192.168.1.77" /\ rr.status # 429 /\ unpruned.status = 0
  /\ rateLimitStore["192.168.1.77"].count = 1

\* C34: the first instance a call of getPipedAudioUrl queries is the
\* instance through which the last successful call succeeded (the first of
\* the list when none has); a call in which every instance failed leaves
\* currentPipedIndex as it was.
C34_StickyInstance ==
  [][ \A c \in Resolvers :
        /\ (pv'.calls[c].pc = "fetch" /\ pv.calls[c].pc \in {"idle", "done"})
             => pv'.calls[c].queried = <<pv.since>>
        /\ (pv'.calls[c].result = "null" /\ pv.calls[c].result # "null")
             => /\ pv'.currentPipedIndex = pv.currentPipedIndex
                /\ pv'.since = pv.since
        /\ (pv'.calls[c].result = "url" /\ pv.calls[c].result # "url")
             => pv'.since = pv.calls[c].queried[Len(pv.calls[c].queried)] ]_vars

\* A call found audio at the third instance after two failures, a second
\* call then failed at every instance, and a third call has begun at the
\* third instance.
C34_Witness ==
  /\ pv.started = 3 /\ pv.currentPipedIndex = 2
  /\ pv.calls[1].pc = "fetch" /\ pv.calls[1].queried = <<2>>
  /\ pv.calls[2].result = "null" /\ pv.calls[2].queried[1] = 2

\* C35: one call of getPipedAudioUrl queries each instance at most once, in
\* cyclic order from the instance it began with, and returns null only after
\* it has queried every instance, also when other calls run at the same time
\* and change currentPipedIndex.
C35_EachInstanceOnceInOrder ==
  \A c \in Resolvers :
    LET queried == pv.calls[c].queried
        n == NumInstances(pv.impl)
    IN /\ \A j, k \in 1..Len(queried) : j # k => queried[j] # queried[k]
       /\ \A j \in 1..Len(queried) : queried[j] = (queried[1] + j - 1) % n
       /\ pv.calls[c].result = "null" => {queried[j] : j \in 1..Len(queried)} = 0..(n - 1)

\* C36: when the client goes away during a relay, every request to the
\* upstream opened for that relay, the ones opened for a redirect too, is
\* destroyed in that turn, and none of them is open afterwards.
C36_NoUpstreamLeftOpen ==
  /\ [](rl.closedIn \in {"connect", "stream"} => rl.open = {})
  /\ [][ (rl.client = "open" /\ rl'.client = "closed") => rl'.open = {} ]_vars

\* The client went away while the body came in through the third request,
\* after two redirects whose requests were still open.
C36_Witness ==
  /\ rl.closedIn = "stream" /\ rl.client = "closed"
  /\ rl.requests = 3 /\ rl.redirects = 2 /\ rl.chunks >= 1
  /\ rl.open = {}

\* A downloader process whose output is the file ext of videoId is running:
\* one a request or a download awaits, or one left behind by a timeout.
Writing(videoId, ext) ==
  \/ \E q \in Reqs : http[q].pc = "race" /\ http[q].id = videoId /\ ext = "m4a"
  \/ \E c \in Calls : dl[c].dpc = "race" /\ ipc[c].id = videoId /\ Output(c) = ext
  \/ orphans[videoId][ext] > 0

\* C37: no request to /api/youtube/audio/:videoId or /api/stream/:trackId is
\* answered with a cache hit on a file that a downloader for the same id is
\* still writing.
C37_NoHitOnFileBeingWritten ==
  [][ \A r \in Reqs :
        (http'[r].hit /\ ~http[r].hit) => ~Writing(http[r].id, http[r].ext) ]_vars

Awaited(videoId) ==
  Cardinality({c \in Calls : dl[c].dpc = "race" /\ ipc[c].id = videoId})
    + Cardinality({q \in Reqs : http[q].pc = "race" /\ http[q].id = videoId})
Running(videoId) ==
  Awaited(videoId) + orphans[videoId]["m4a"] + orphans[videoId]["webm"]

\* C39: the downloader of an attempt that ended by its timeout is no longer
\* running when the next attempt, or a later acquire of the same id, starts
\* its downloader: the handler of get-youtube-audio-url never has two
\* downloaders of one id running, and an output file is written only by a
\* downloader that an attempt awaits, not after the attempt has deleted it.
C39_TimedOutDownloaderGone ==
  /\ [](\A videoId \in InputIds :
          (\E c \in Calls : dl[c].dpc = "race" /\ ipc[c].id = videoId)
            => orphans[videoId]["m4a"] + orphans[videoId]["webm"] = 0)
  /\ [][ \A videoId \in InputIds : \A ext \in ExtSet :
           (cache'[videoId][ext] # cache[videoId][ext] /\ cache'[videoId][ext] # "none")
             => Awaited(videoId) > 0 ]_vars

\* C40: a run of cleanupCache does not delete a file that a cache hit
\* returned while the run was going on: the file a run unlinks still has the
\* modification time the run read for it, no hit has refreshed it since.
C40_SweepSparesFileHitMeanwhile ==
  [][ \A f \in FileSet :
        (sw.pc \in {"age", "size"} /\ dir[f].present /\ ~dir'[f].present)
          => dir[f].mtime = StatMtime(f) ]_vars

====
